---- MODULE Spec2Model ----
(***************************************************************************)
(* A model of the data-access layer of abdullateef_api: the seven tables   *)
(* (agents, clients, hajj_packages, bookings, commissions,                 *)
(* payment_transactions, notes), the constraints the relational store      *)
(* enforces on them (NOT NULL, UNIQUE, FOREIGN KEY), and one action per    *)
(* DAO method / HTTP handler.                                              *)
(*                                                                         *)
(* Conventions.                                                            *)
(*  - A table is a function from primary keys (positive integers standing  *)
(*    for uuid4 values) to rows (records of the mapped columns, timestamps *)
(*    left out).                                                           *)
(*  - A Python str is a sequence of one-character strings; None in a str   *)
(*    position is NoneStr, None in an id position is NoneId.               *)
(*  - A statement the store rejects raises IntegrityError and changes no   *)
(*    table; `last` records the operation just performed, its arguments,   *)
(*    what it returned or raised.                                          *)
(*  - The tables hold what is committed.  The actions named after a DAO    *)
(*    method run the method in a unit of work of its own and commit it;    *)
(*    the actions of the sessions (further down) run a method inside an    *)
(*    open unit of work, whose flushed rows stay in `sessions` until the   *)
(*    unit of work commits.                                                *)
(***************************************************************************)
EXTENDS Integers, Sequences, FiniteSets, TLC

VARIABLES agents, clients, packages, bookings, commissions, payments, notes, last,
          sessions

vars == <<agents, clients, packages, bookings, commissions, payments, notes, last,
         sessions>>

tables == <<agents, clients, packages, bookings, commissions, payments, notes>>

-----------------------------------------------------------------------------
(* Python values *)

\* None where an Optional[uuid.UUID] is expected (primary keys are >= 1).
NoneId == 0

\* None where an Optional[int] is expected; no int of the model is this one.
NoneInt == -1000

\* None where an Optional[str] is expected; no str is this sequence, since
\* the elements of a str are single characters.
NoneStr == <<"None">>

\* Result.scalar_one_or_none() raising MultipleResultsFound.
MultipleResultsFound == -1

\* Python truthiness of an Optional[str]: None and "" are falsy.
Falsy(s) == s = NoneStr \/ s = <<>>

\* Result.scalar_one_or_none() over the set of primary keys a SELECT matched.
ScalarOneOrNone(S) ==
    IF S = {} THEN NoneId
    ELSE IF Cardinality(S) = 1 THEN CHOOSE i \in S : TRUE
    ELSE MultipleResultsFound

EmptyTable == [i \in {} |-> 0]

\* default=uuid.uuid4: the primary key of a new row is one no row has.  Keys
\* are opaque (only ever compared for equality), so the model takes the least
\* unused positive integer; any other fresh key gives the same run up to a
\* renaming of keys.  A key freed by a delete can be taken again.
FreshKey(tbl, id) ==
    /\ id >= 1
    /\ id \notin DOMAIN tbl
    /\ \A j \in 1..(id - 1) : j \in DOMAIN tbl

\* INSERT of one row under primary key id.
Insert(tbl, id, row) == [i \in DOMAIN tbl \cup {id} |-> IF i = id THEN row ELSE tbl[i]]

DeleteRows_Kept(tbl, ids) == tbl

\* DELETE ... WHERE id IN ids.
DeleteRows(tbl, ids) == [i \in DOMAIN tbl \ ids |-> tbl[i]]

UpdateRow_NoWhere(tbl, id, kw) ==
    [i \in DOMAIN tbl |->
        [f \in DOMAIN tbl[i] |-> IF f \in DOMAIN kw THEN kw[f] ELSE tbl[i][f]]]

\* UPDATE ... WHERE id = id ... VALUES(**kw): kw maps column names to values;
\* no row matches when id is absent, and then nothing changes.
UpdateRow(tbl, id, kw) ==
    [i \in DOMAIN tbl |->
        IF i = id
        THEN [f \in DOMAIN tbl[i] |-> IF f \in DOMAIN kw THEN kw[f] ELSE tbl[i][f]]
        ELSE tbl[i]]

-----------------------------------------------------------------------------
(* Constraints of the schema (db/models) *)

\* agents.agent_code: nullable=False
AgentNotNull(ag) == \A i \in DOMAIN ag : ag[i].agent_code # NoneStr

AgentCodeUnique_Dropped(ag) == TRUE

\* agents.agent_code: unique=True
AgentCodeUnique(ag) ==
    \A i, j \in DOMAIN ag : i # j => ag[i].agent_code # ag[j].agent_code

\* clients: first_name, last_name, passport_number nullable=False
\* (sex, phone_number, location are nullable=False too and are always
\* supplied by the inputs of this model)
ClientNotNull(cl) ==
    \A i \in DOMAIN cl :
        /\ cl[i].first_name # NoneStr
        /\ cl[i].last_name # NoneStr
        /\ cl[i].passport_number # NoneStr

PassportUnique_Dropped(cl) == TRUE

\* clients.passport_number: unique=True
PassportUnique(cl) ==
    \A i, j \in DOMAIN cl : i # j => cl[i].passport_number # cl[j].passport_number

\* hajj_packages: year, local_price, diaspora_price, registration_fee,
\* commission_amount nullable=False
PackageNotNull(pk) ==
    \A i \in DOMAIN pk :
        \A f \in {"year", "local_price", "diaspora_price", "registration_fee",
                  "commission_amount"} : pk[i][f] # NoneInt

\* A nullable foreign key column: NULL or the key of an existing row.
RefOK(v, tbl) == v = NoneId \/ v \in DOMAIN tbl

\* A nullable=False foreign key column.
ReqRefOK(v, tbl) == v # NoneId /\ v \in DOMAIN tbl

\* clients.referee_id -> agents.id
ClientFK(cl, ag) == \A i \in DOMAIN cl : RefOK(cl[i].referee_id, ag)

\* bookings.client_id -> clients.id, package_id -> hajj_packages.id,
\* agent_id -> agents.id (nullable), moved_to_booking_id -> bookings.id (nullable);
\* status nullable=False
BookingFK(bk, cl, pk, ag) ==
    \A i \in DOMAIN bk :
        /\ ReqRefOK(bk[i].client_id, cl)
        /\ ReqRefOK(bk[i].package_id, pk)
        /\ RefOK(bk[i].agent_id, ag)
        /\ RefOK(bk[i].moved_to_booking_id, bk)
        /\ bk[i].status # "None"

\* commissions.agent_id -> agents.id, booking_id -> bookings.id;
\* commission_amount Integer nullable=False (no CHECK constraint)
CommissionFK(cm, ag, bk) ==
    \A i \in DOMAIN cm :
        /\ ReqRefOK(cm[i].agent_id, ag)
        /\ ReqRefOK(cm[i].booking_id, bk)

\* payment_transactions.booking_id -> bookings.id; amount Integer nullable=False
PaymentFK(pt, bk) == \A i \in DOMAIN pt : ReqRefOK(pt[i].booking_id, bk)

\* notes.client_id -> clients.id
NoteFK(nt, cl) == \A i \in DOMAIN nt : ReqRefOK(nt[i].client_id, cl)

\* The store accepts a flush/commit exactly when the tables it would leave
\* satisfy every constraint; otherwise the statement raises IntegrityError.
StoreAccepts(ag, cl, pk, bk, cm, pt, nt) ==
    /\ AgentNotNull(ag)
    /\ AgentCodeUnique(ag)
    /\ ClientNotNull(cl)
    /\ PassportUnique(cl)
    /\ PackageNotNull(pk)
    /\ ClientFK(cl, ag)
    /\ BookingFK(bk, cl, pk, ag)
    /\ CommissionFK(cm, ag, bk)
    /\ PaymentFK(pt, bk)
    /\ NoteFK(nt, cl)

Flush_Unchecked(ag, cl, pk, bk, cm, pt, nt, ok, failed) ==
    /\ agents' = ag /\ clients' = cl /\ packages' = pk /\ bookings' = bk
    /\ commissions' = cm /\ payments' = pt /\ notes' = nt
    /\ last' = ok
    /\ UNCHANGED sessions

\* Write the tables if the store accepts them and record `ok`; otherwise
\* leave every table as it is and record `failed`.
Flush(ag, cl, pk, bk, cm, pt, nt, ok, failed) ==
    IF StoreAccepts(ag, cl, pk, bk, cm, pt, nt)
    THEN /\ agents' = ag /\ clients' = cl /\ packages' = pk /\ bookings' = bk
         /\ commissions' = cm /\ payments' = pt /\ notes' = nt
         /\ last' = ok
         /\ UNCHANGED sessions
    ELSE /\ UNCHANGED <<tables, sessions>>
         /\ last' = failed

\* The units of work (AsyncSession objects) that can be open side by side.
SessionIds == {1, 2}

\* A session with no unit of work open.  pc: where its request stands;
\* agents, packages: the rows it has flushed and not yet committed; begin:
\* the committed agents, clients and packages when its unit of work was
\* opened; code, retries: the locals of create_agent / _generate_agent_code;
\* exc: the exception that ended its last DAO call; outcome: how its last
\* unit of work ended.
ClosedSession ==
    [pc |-> "closed", agents |-> EmptyTable, packages |-> EmptyTable,
     begin |-> <<>>, code |-> NoneStr, retries |-> 0, exc |-> "", outcome |-> ""]

Init ==
    /\ sessions = [s \in SessionIds |-> ClosedSession]
    /\ agents = EmptyTable
    /\ clients = EmptyTable
    /\ packages = EmptyTable
    /\ bookings = EmptyTable
    /\ commissions = EmptyTable
    /\ payments = EmptyTable
    /\ notes = EmptyTable
    /\ last = [op |-> "init", id |-> NoneId, exc |-> ""]

-----------------------------------------------------------------------------
(* AgentDAO *)

\* string.ascii_uppercase and string.digits, cut down to one character each
\* (ten candidate codes: the orders of A A A 0 0), so that collisions between
\* generated codes are common.
Letters == {"A"}
Digits == {"0"}

\* k=3 letters, k=2 digits
NumCodeLetters == 3
NumCodeDigits == 2

\* The orders random.shuffle can leave a list of n elements in.
Shuffles(n) == {p \in [1..n -> 1..n] : \A i, j \in 1..n : i # j => p[i] # p[j]}

\* random.choices(string.ascii_uppercase + string.digits, k=5)
CodeCandidates_AnyMix ==
    { c : c \in [1..(NumCodeLetters + NumCodeDigits) -> Letters \cup Digits] }

\* Every value `code` can take in one iteration of _generate_agent_code:
\* letters + digits, shuffled, joined.
CodeCandidates ==
    { [i \in 1..(NumCodeLetters + NumCodeDigits) |-> (l \o d)[p[i]]] :
        l \in [1..NumCodeLetters -> Letters],
        d \in [1..NumCodeDigits -> Digits],
        p \in Shuffles(NumCodeLetters + NumCodeDigits) }

get_by_id_agent(agent_id) ==
    ScalarOneOrNone({i \in DOMAIN agents : i = agent_id})

get_by_code_NeverFound(agent_code) == NoneId

get_by_code(agent_code) ==
    ScalarOneOrNone({i \in DOMAIN agents : agents[i].agent_code = agent_code})

\* What a call of _generate_agent_code can end with: a candidate that
\* get_by_code does not find (the loop retries the others), or the exception
\* of get_by_code on a candidate held by several rows.
GenRaised == <<"MultipleResultsFound">>

_generate_agent_code ==
    {c \in CodeCandidates : get_by_code(c) = NoneId}
    \cup (IF \E c \in CodeCandidates : get_by_code(c) = MultipleResultsFound
          THEN {GenRaised} ELSE {})

AgentCodeChoice_AlwaysGenerated(agent_code) == _generate_agent_code

\* create_agent, lines 54-55: the code the new row gets.
AgentCodeChoice(agent_code) ==
    IF Falsy(agent_code) THEN _generate_agent_code ELSE {agent_code}

\* a: the keyword arguments (first_name .. account_number, agent_code).
create_agent(id, a) ==
    /\ FreshKey(agents, id)
    /\ \E code \in AgentCodeChoice(a.agent_code) :
        LET rec == [op |-> "create_agent", id |-> id, arg_code |-> a.agent_code,
                    gen |-> Falsy(a.agent_code), code |-> code]
        IN  IF code = GenRaised
            THEN /\ UNCHANGED <<tables, sessions>>
                 /\ last' = [rec EXCEPT !.id = NoneId] @@ [exc |-> "MultipleResultsFound"]
            ELSE Flush(Insert(agents, id, [a EXCEPT !.agent_code = code]),
                       clients, packages, bookings, commissions, payments, notes,
                       rec @@ [exc |-> ""],
                       [rec EXCEPT !.id = NoneId] @@ [exc |-> "IntegrityError"])

\* kw: the **kwargs, a function from column names to values.
update_agent(agent_id, kw) ==
    LET rec == [op |-> "update_agent", id |-> agent_id, kw |-> kw,
                found |-> agent_id \in DOMAIN agents]
    IN  Flush(UpdateRow(agents, agent_id, kw),
              clients, packages, bookings, commissions, payments, notes,
              rec @@ [exc |-> "", ret |-> get_by_id_agent(agent_id)],
              rec @@ [exc |-> "IntegrityError"])

regenerate_agent_code(agent_id) ==
    \E new_code \in _generate_agent_code :
        LET rec == [op |-> "regenerate_agent_code", id |-> agent_id, gen |-> TRUE,
                    code |-> new_code, found |-> agent_id \in DOMAIN agents]
        IN  IF new_code = GenRaised
            THEN /\ UNCHANGED <<tables, sessions>>
                 /\ last' = rec @@ [exc |-> "MultipleResultsFound"]
            ELSE Flush(UpdateRow(agents, agent_id, [f \in {"agent_code"} |-> new_code]),
                       clients, packages, bookings, commissions, payments, notes,
                       rec @@ [exc |-> "", ret |-> get_by_id_agent(agent_id)],
                       rec @@ [exc |-> "IntegrityError"])

delete_agent(agent_id) ==
    LET rec == [op |-> "delete_agent", id |-> agent_id,
                found |-> agent_id \in DOMAIN agents]
    IN  Flush(DeleteRows(agents, {agent_id}),
              clients, packages, bookings, commissions, payments, notes,
              rec @@ [exc |-> ""],
              rec @@ [exc |-> "IntegrityError"])

-----------------------------------------------------------------------------
(* Specification of the agents table alone *)

MaxAgents == 2

AgentIds == 1..MaxAgents

\* An explicit code of the generator's form, one of another form, "" and None.
ExplicitCodes == { <<"A", "0", "A", "0", "A">>, <<"X", "9">>, <<>>, NoneStr }

Name1 == <<"a", "l", "i">>

AgentArgs(first_name, last_name, agent_code) ==
    [first_name |-> first_name, last_name |-> last_name, other_name |-> NoneStr,
     sex |-> "None", phone_number |-> NoneStr, bank_name |-> NoneStr,
     account_number |-> NoneStr, agent_code |-> agent_code]

AgentKwargs == { [f \in {"agent_code"} |-> c] : c \in ExplicitCodes }

AgentCreate ==
    \E id \in AgentIds, c \in ExplicitCodes : create_agent(id, AgentArgs(Name1, Name1, c))

AgentUpdate == \E id \in AgentIds, kw \in AgentKwargs : update_agent(id, kw)

AgentRegenerate == \E id \in AgentIds : regenerate_agent_code(id)

AgentDelete == \E id \in AgentIds : delete_agent(id)

NextAgent == AgentCreate \/ AgentUpdate \/ AgentRegenerate \/ AgentDelete

SpecAgent == Init /\ [][NextAgent]_vars

-----------------------------------------------------------------------------
(* Properties of AgentDAO *)

UpperCaseLetters ==
    {"A", "B", "C", "D", "E", "F", "G", "H", "I", "J", "K", "L", "M",
     "N", "O", "P", "Q", "R", "S", "T", "U", "V", "W", "X", "Y", "Z"}

DecimalDigits == {"0", "1", "2", "3", "4", "5", "6", "7", "8", "9"}

CountIn(s, S) == Cardinality({i \in DOMAIN s : s[i] \in S})

\* C1: in every state reachable by create_agent (with or without an explicit
\* code), regenerate_agent_code, update_agent and delete_agent, no two
\* persisted agents have the same agent_code.
C1_AgentCodesUnique ==
    \A i, j \in DOMAIN agents : i # j => agents[i].agent_code # agents[j].agent_code

\* Two agents are persisted and the operation just attempted would have given
\* one of them the other's code.
C1_Witness ==
    /\ Cardinality(DOMAIN agents) >= 2
    /\ last.op = "update_agent"
    /\ last.exc = "IntegrityError"
    /\ "agent_code" \in DOMAIN last.kw
    /\ \E i \in DOMAIN agents : i # last.id /\ agents[i].agent_code = last.kw.agent_code

\* C2: every code _generate_agent_code returns has length 5 and consists of
\* exactly 3 uppercase letters and 2 digits in some order, and it is the
\* agent_code of the agent created (or regenerated) with it.
C2_GeneratedCodeForm ==
    (/\ last.op \in {"create_agent", "regenerate_agent_code"}
     /\ last.gen
     /\ last.exc # "MultipleResultsFound")
    => /\ Len(last.code) = 5
       /\ CountIn(last.code, UpperCaseLetters) = 3
       /\ CountIn(last.code, DecimalDigits) = 2
       /\ (last.exc = "" /\ last.id \in DOMAIN agents
            => agents[last.id].agent_code = last.code)

\* An agent created without a code, while other agents already hold codes.
C2_Witness ==
    /\ last.op = "create_agent"
    /\ last.arg_code = NoneStr
    /\ last.exc = ""
    /\ Cardinality(DOMAIN agents) >= 2
    /\ agents[last.id].agent_code = last.code

\* C3 as stated: for every agent_code passed explicitly to create_agent (any
\* str, not None), the created agent has exactly that code and the generator
\* is not used.
C3_AnyExplicitCodePreserved ==
    (last.op = "create_agent" /\ last.exc = "" /\ last.arg_code # NoneStr)
    => (agents[last.id].agent_code = last.arg_code /\ ~last.gen)

\* C3 amended: for every non-empty agent_code passed explicitly to
\* create_agent, the created agent has exactly that code and the generator is
\* not used.
C3_NonEmptyExplicitCodePreserved ==
    (last.op = "create_agent" /\ last.exc = "" /\ ~Falsy(last.arg_code))
    => (agents[last.id].agent_code = last.arg_code /\ ~last.gen)

\* An agent created with an explicit non-empty code that is not of the
\* generator's form.
C3_Witness ==
    /\ last.op = "create_agent"
    /\ last.exc = ""
    /\ last.arg_code = <<"X", "9">>
    /\ last.id \in DOMAIN agents

\* C11: a create_agent called with an explicit (non-empty) agent_code that a
\* persisted agent already holds raises the store's IntegrityError, does not
\* fall back to a generated code, and leaves the agents table as it was.
C11_DuplicateExplicitCodeRejected ==
    [][ (/\ last'.op = "create_agent"
         /\ ~Falsy(last'.arg_code)
         /\ \E i \in DOMAIN agents : agents[i].agent_code = last'.arg_code)
        => (/\ last'.exc = "IntegrityError"
            /\ ~last'.gen
            /\ last'.code = last'.arg_code
            /\ agents' = agents) ]_vars

\* A create_agent with the explicit code of a persisted agent has just failed.
C11_Witness ==
    /\ last.op = "create_agent"
    /\ last.arg_code = <<"X", "9">>
    /\ last.exc = "IntegrityError"
    /\ \E i \in DOMAIN agents : agents[i].agent_code = last.arg_code

\* C19: regenerate_agent_code applied to an existing agent leaves that agent
\* with a 5-character code that differs from the code it had before and from
\* the code of every other persisted agent, and changes no other field of
\* that agent and no other agent.
C19_RegenerateGivesNewCode ==
    [][ (last'.op = "regenerate_agent_code" /\ last'.id \in DOMAIN agents)
        => /\ last'.exc = ""
           /\ Len(agents'[last'.id].agent_code) = 5
           /\ agents'[last'.id].agent_code # agents[last'.id].agent_code
           /\ \A j \in DOMAIN agents' \ {last'.id} :
                agents'[j].agent_code # agents'[last'.id].agent_code
           /\ agents' = [agents EXCEPT ![last'.id].agent_code = last'.code] ]_vars

\* The code of one of two persisted agents has just been regenerated.
C19_Witness ==
    /\ last.op = "regenerate_agent_code"
    /\ last.exc = ""
    /\ last.found
    /\ Cardinality(DOMAIN agents) >= 2
    /\ agents[last.id].agent_code = last.code

-----------------------------------------------------------------------------
(* ClientDAO *)

\* get_by_id: result.scalars().first()
get_by_id_client(client_id) ==
    IF client_id \in DOMAIN clients THEN client_id ELSE NoneId

\* c: the arguments (first_name .. referee_id).  session.add, session.commit.
create_client(id, c) ==
    /\ FreshKey(clients, id)
    /\ LET rec == [op |-> "create_client", id |-> id, args |-> c]
       IN  Flush(agents, Insert(clients, id, c), packages, bookings,
                 commissions, payments, notes,
                 rec @@ [exc |-> ""],
                 [rec EXCEPT !.id = NoneId] @@ [exc |-> "IntegrityError"])

\* `value is None`, by the type of the column: a key, an enum, or text.
IdColumns ==
    {"referee_id", "client_id", "package_id", "agent_id", "booking_id",
     "moved_to_booking_id", "created_by"}

EnumColumns == {"sex", "location", "status", "travelling_from", "payment_type"}

IsNone(f, v) ==
    IF f \in IdColumns THEN v = NoneId
    ELSE IF f \in EnumColumns THEN v = "None"
    ELSE v = NoneStr

\* update_client, lines 82-84: setattr for every keyword that names an
\* attribute and whose value is not None.
SetAttrs(row, kw) ==
    [f \in DOMAIN row |->
        IF f \in DOMAIN kw /\ ~IsNone(f, kw[f]) THEN kw[f] ELSE row[f]]

update_client(client_id, kw) ==
    LET rec == [op |-> "update_client", id |-> client_id, kw |-> kw,
                found |-> client_id \in DOMAIN clients]
    IN  IF get_by_id_client(client_id) = NoneId
        THEN /\ UNCHANGED <<tables, sessions>>
             /\ last' = rec @@ [exc |-> "", ret |-> NoneId]
        ELSE Flush(agents,
                   [clients EXCEPT ![client_id] = SetAttrs(clients[client_id], kw)],
                   packages, bookings, commissions, payments, notes,
                   rec @@ [exc |-> "", ret |-> client_id],
                   rec @@ [exc |-> "IntegrityError"])

\* The rows session.delete(client) removes with the client: its bookings and
\* notes (cascade="all, delete-orphan").
BookingsOfClient(client_id) == {b \in DOMAIN bookings : bookings[b].client_id = client_id}

NotesOfClient(client_id) == {n \in DOMAIN notes : notes[n].client_id = client_id}

\* Booking.payments / Booking.commissions have no delete cascade: when the
\* unit of work deletes a booking it sets booking_id of its payments and
\* commissions to NULL (which their NOT NULL constraint then rejects).
Nullify(tbl, bks) ==
    [i \in DOMAIN tbl |->
        IF tbl[i].booking_id \in bks THEN [tbl[i] EXCEPT !.booking_id = NoneId]
        ELSE tbl[i]]

delete_client(client_id) ==
    LET rec == [op |-> "delete_client", id |-> client_id,
                found |-> client_id \in DOMAIN clients]
    IN  IF get_by_id_client(client_id) = NoneId
        THEN /\ UNCHANGED <<tables, sessions>>
             /\ last' = rec @@ [exc |-> "", ret |-> FALSE]
        ELSE LET bks == BookingsOfClient(client_id)
                 nts == NotesOfClient(client_id)
             IN  Flush(agents,
                       DeleteRows(clients, {client_id}),
                       packages,
                       DeleteRows(bookings, bks),
                       Nullify(commissions, bks),
                       Nullify(payments, bks),
                       DeleteRows(notes, nts),
                       rec @@ [exc |-> "", ret |-> TRUE, bookings |-> bks, notes |-> nts],
                       rec @@ [exc |-> "IntegrityError"])

-----------------------------------------------------------------------------
(* Specification of the clients table alone *)

MaxClients == 2

ClientIds == 1..MaxClients

Passports == { <<"P", "1">>, <<"P", "2">>, <<"P", "3">> }

ClientArgs(first_name, last_name, other_name, passport_number, referee_id) ==
    [first_name |-> first_name, last_name |-> last_name, other_name |-> other_name,
     sex |-> "male", phone_number |-> <<"0", "8">>,
     passport_number |-> passport_number, date_of_birth |-> NoneStr,
     location |-> "NG", referee_id |-> referee_id]

ClientKwargs ==
    { [f \in {"passport_number"} |-> p] : p \in Passports \cup {NoneStr} }
    \cup { [f \in {"last_name"} |-> <<"b", "o">>] }

ClientCreate ==
    \E id \in ClientIds, p \in Passports \cup {NoneStr} :
        create_client(id, ClientArgs(Name1, Name1, NoneStr, p, NoneId))

ClientUpdate == \E id \in ClientIds, kw \in ClientKwargs : update_client(id, kw)

ClientDelete == \E id \in ClientIds : delete_client(id)

NextClient == ClientCreate \/ ClientUpdate \/ ClientDelete

SpecClient == Init /\ [][NextClient]_vars

-----------------------------------------------------------------------------
(* Properties of ClientDAO *)

PassportsDistinct ==
    \A i, j \in DOMAIN clients :
        i # j => clients[i].passport_number # clients[j].passport_number

\* The call recorded in last' is a create_client or an update_client that,
\* applied to the clients of the state before it, would give two clients the
\* same passport number.
WouldDuplicatePassport ==
    \/ /\ last'.op = "create_client"
       /\ \E i \in DOMAIN clients :
            clients[i].passport_number = last'.args.passport_number
    \/ /\ last'.op = "update_client"
       /\ last'.id \in DOMAIN clients
       /\ "passport_number" \in DOMAIN last'.kw
       /\ last'.kw.passport_number # NoneStr
       /\ \E i \in DOMAIN clients :
            i # last'.id /\ clients[i].passport_number = last'.kw.passport_number

\* C10: in every state reachable by create_client, update_client and
\* delete_client no two persisted clients have the same passport_number, and a
\* create_client or update_client that would introduce a duplicate passport
\* number fails and leaves the persisted clients unchanged.
C10_PassportUnique ==
    /\ PassportsDistinct
    /\ [][ /\ PassportsDistinct'
           /\ WouldDuplicatePassport
                => (last'.exc = "IntegrityError" /\ clients' = clients) ]_vars

\* Two clients are persisted and an update_client that tried to give one the
\* other's passport number has just failed.
C10_Witness ==
    /\ Cardinality(DOMAIN clients) >= 2
    /\ last.op = "update_client"
    /\ last.exc = "IntegrityError"
    /\ "passport_number" \in DOMAIN last.kw
    /\ \E i \in DOMAIN clients :
         i # last.id /\ clients[i].passport_number = last.kw.passport_number

\* C24: update_client applied to an existing client sets each field supplied
\* in the call to the supplied value, leaves every field not supplied
\* unchanged, and returns the updated client; applied to an id with no client
\* it returns None and changes nothing.
C24_UpdateClientSetsSuppliedFields ==
    [][ (last'.op = "update_client" /\ last'.exc = "")
        => IF last'.id \in DOMAIN clients
           THEN /\ last'.ret = last'.id
                /\ DOMAIN clients' = DOMAIN clients
                /\ \A f \in DOMAIN clients[last'.id] :
                      clients'[last'.id][f] =
                          IF f \in DOMAIN last'.kw THEN last'.kw[f]
                          ELSE clients[last'.id][f]
                /\ \A i \in DOMAIN clients \ {last'.id} : clients'[i] = clients[i]
           ELSE /\ last'.ret = NoneId
                /\ tables' = tables ]_vars

-----------------------------------------------------------------------------
(* Name filters: Agent.first_name.ilike(f"%{first_name}%") and the like *)

UpperCase == <<"A", "B", "C", "D", "E", "F", "G", "H", "I", "J", "K", "L", "M",
               "N", "O", "P", "Q", "R", "S", "T", "U", "V", "W", "X", "Y", "Z">>

LowerCase == <<"a", "b", "c", "d", "e", "f", "g", "h", "i", "j", "k", "l", "m",
               "n", "o", "p", "q", "r", "s", "t", "u", "v", "w", "x", "y", "z">>

\* Case folding of one character, as ILIKE compares.
Lower(c) ==
    IF \E i \in DOMAIN UpperCase : UpperCase[i] = c
    THEN LowerCase[CHOOSE i \in DOMAIN UpperCase : UpperCase[i] = c]
    ELSE c

\* s ILIKE pat for non-NULL s: in the pattern % matches any run of characters
\* (the empty one too), _ matches any one character, and every other
\* character matches itself without regard to case.
RECURSIVE ILike(_, _)
ILike(s, pat) ==
    IF pat = <<>> THEN s = <<>>
    ELSE IF Head(pat) = "%"
         THEN ILike(s, Tail(pat)) \/ (s # <<>> /\ ILike(Tail(s), pat))
    ELSE IF Head(pat) = "_"
         THEN s # <<>> /\ ILike(Tail(s), Tail(pat))
    ELSE s # <<>> /\ Lower(Head(s)) = Lower(Head(pat)) /\ ILike(Tail(s), Tail(pat))

\* column.ilike(f"%{text}%") as a WHERE condition: a NULL column gives NULL,
\* which selects nothing.
Contains(col, text) == col # NoneStr /\ ILike(col, <<"%">> \o text \o <<"%">>)

\* AgentDAO.filter_by_name: a falsy filter adds no condition.
filter_by_name_rows(first_name, last_name) ==
    {i \in DOMAIN agents :
        /\ Falsy(first_name) \/ Contains(agents[i].first_name, first_name)
        /\ Falsy(last_name) \/ Contains(agents[i].last_name, last_name)}

filter_by_name(first_name, last_name) ==
    /\ UNCHANGED <<tables, sessions>>
    /\ last' = [op |-> "filter_by_name", id |-> NoneId, exc |-> "",
                first_name |-> first_name, last_name |-> last_name,
                ret |-> filter_by_name_rows(first_name, last_name)]

\* ClientDAO.get_by_name: or_ of the three columns.
get_by_name_rows(name) ==
    {i \in DOMAIN clients :
        \/ Contains(clients[i].first_name, name)
        \/ Contains(clients[i].last_name, name)
        \/ Contains(clients[i].other_name, name)}

get_by_name(name) ==
    /\ UNCHANGED <<tables, sessions>>
    /\ last' = [op |-> "get_by_name", id |-> NoneId, exc |-> "",
                name |-> name, ret |-> get_by_name_rows(name)]

-----------------------------------------------------------------------------
(* Specification of the name filters *)

MaxNamed == 1

StoredNames == { <<"A", "l">>, <<"b">> }

FilterTexts == { <<>>, <<"a">>, <<"L">>, <<"l", "a">>, <<"a", "L">>, <<"_">>, <<"%", "b">> }

NameAgentCreate ==
    \E id \in 1..MaxNamed, f \in StoredNames, l \in StoredNames :
        create_agent(id, AgentArgs(f, l, <<"K", "7">>))

NameClientCreate ==
    \E id \in 1..MaxNamed, f \in StoredNames, l \in StoredNames,
       o \in StoredNames \cup {NoneStr} :
        create_client(id, ClientArgs(f, l, o, <<"P", "1">>, NoneId))

NameAgentFilter ==
    \E f \in FilterTexts \cup {NoneStr}, l \in FilterTexts \cup {NoneStr} :
        filter_by_name(f, l)

NameClientFilter == \E n \in FilterTexts : get_by_name(n)

NextName == NameAgentCreate \/ NameClientCreate \/ NameAgentFilter \/ NameClientFilter

SpecName == Init /\ [][NextName]_vars

\* The text occurs in the column as a substring, letter case disregarded.
HasSubstring(col, text) ==
    /\ col # NoneStr
    /\ \E k \in 0..(Len(col) - Len(text)) :
         \A i \in 1..Len(text) : Lower(col[k + i]) = Lower(text[i])

\* C5: filter_by_name and get_by_name return exactly the persisted records
\* whose name field contains the given text as a substring, without regard to
\* letter case: for agents every supplied filter must match its field, for
\* clients at least one of first_name, last_name, other_name must match.
C5_NameFilterIsSubstringMatch ==
    /\ last.op = "filter_by_name" =>
         last.ret = {i \in DOMAIN agents :
                        /\ last.first_name = NoneStr
                             \/ HasSubstring(agents[i].first_name, last.first_name)
                        /\ last.last_name = NoneStr
                             \/ HasSubstring(agents[i].last_name, last.last_name)}
    /\ last.op = "get_by_name" =>
         last.ret = {i \in DOMAIN clients :
                        \/ HasSubstring(clients[i].first_name, last.name)
                        \/ HasSubstring(clients[i].last_name, last.name)
                        \/ HasSubstring(clients[i].other_name, last.name)}

-----------------------------------------------------------------------------
(* HajjPackageDAO.create_hajj_package *)

\* p: the arguments (year, local_price, diaspora_price, registration_fee,
\* commission_amount, description).  session.add, session.flush.
create_hajj_package(id, p) ==
    /\ FreshKey(packages, id)
    /\ LET rec == [op |-> "create_hajj_package", id |-> id]
       IN  Flush(agents, clients, Insert(packages, id, p), bookings,
                 commissions, payments, notes,
                 rec @@ [exc |-> ""],
                 [rec EXCEPT !.id = NoneId] @@ [exc |-> "IntegrityError"])

PackageArgs(year, local_price, diaspora_price, registration_fee, commission_amount) ==
    [year |-> year, local_price |-> local_price, diaspora_price |-> diaspora_price,
     registration_fee |-> registration_fee, commission_amount |-> commission_amount,
     description |-> NoneStr]

-----------------------------------------------------------------------------
(* BookingDAO *)

get_by_id_booking(booking_id) ==
    ScalarOneOrNone({i \in DOMAIN bookings : i = booking_id})

\* The attributes of the Booking a call returns: those of the row that
\* get_by_id selects after the UPDATE has been flushed.
Returned(tbl, id) == IF id \in DOMAIN tbl THEN {tbl[id]} ELSE {}

\* b: the arguments (client_id, package_id, agent_id, travelling_from,
\* status, moved_to_booking_id).  The key of the new row is drawn by uuid4
\* at the flush, so no argument of the call can be that key.
create_booking(id, b) ==
    /\ FreshKey(bookings, id)
    /\ b.moved_to_booking_id # id
    /\ LET rec == [op |-> "create_booking", id |-> id]
       IN  Flush(agents, clients, packages, Insert(bookings, id, b),
                 commissions, payments, notes,
                 rec @@ [exc |-> ""],
                 [rec EXCEPT !.id = NoneId] @@ [exc |-> "IntegrityError"])

\* delete(Booking).where(Booking.id == booking_id).returning(Booking.id)
delete_booking(booking_id) ==
    LET rec == [op |-> "delete_booking", id |-> booking_id,
                found |-> booking_id \in DOMAIN bookings]
    IN  Flush(agents, clients, packages, DeleteRows(bookings, {booking_id}),
              commissions, payments, notes,
              rec @@ [exc |-> "", ret |-> booking_id \in DOMAIN bookings],
              rec @@ [exc |-> "IntegrityError"])

UpdateBooking_Lost(booking_id, column, value) == bookings

UpdateBooking_AlsoMoved(booking_id, column, value) ==
    UpdateRow(bookings, booking_id,
              IF column = "moved_to_booking_id"
              THEN [moved_to_booking_id |-> value, status |-> "moved"]
              ELSE [f \in {column} |-> value])

\* update(Booking).where(Booking.id == booking_id).values(column=value)
UpdateBooking(booking_id, column, value) ==
    UpdateRow(bookings, booking_id, [f \in {column} |-> value])

\* The three updates: the UPDATE, session.flush, return get_by_id(booking_id).
BookingUpdate(op, booking_id, column, value) ==
    LET rec == [op |-> op, id |-> booking_id, arg |-> value,
                found |-> booking_id \in DOMAIN bookings]
        new == UpdateBooking(booking_id, column, value)
    IN  Flush(agents, clients, packages, new, commissions, payments, notes,
              rec @@ [exc |-> "", ret |-> Returned(new, booking_id)],
              rec @@ [exc |-> "IntegrityError"])

update_status(booking_id, new_status) ==
    BookingUpdate("update_status", booking_id, "status", new_status)

assign_agent(booking_id, agent_id) ==
    BookingUpdate("assign_agent", booking_id, "agent_id", agent_id)

move_booking(booking_id, new_booking_id) ==
    BookingUpdate("move_booking", booking_id, "moved_to_booking_id", new_booking_id)

MovedBookings_From(original_booking_id) ==
    {i \in DOMAIN bookings :
        \E j \in DOMAIN bookings :
            j = original_booking_id /\ bookings[j].moved_to_booking_id = i}

\* select(Booking).where(Booking.moved_to_booking_id == original_booking_id)
MovedBookings(original_booking_id) ==
    {i \in DOMAIN bookings : bookings[i].moved_to_booking_id = original_booking_id}

get_moved_bookings(original_booking_id) ==
    /\ UNCHANGED <<tables, sessions>>
    /\ last' = [op |-> "get_moved_bookings", id |-> NoneId, exc |-> "",
                arg |-> original_booking_id,
                ret |-> MovedBookings(original_booking_id)]

-----------------------------------------------------------------------------
(* Specification of the bookings table: one client, one package, one agent,
   and the bookings made for them *)

MaxBookings == 2

BookingIds == 1..MaxBookings

\* BookingStatusEnum
BookingStatuses == {"registered", "completed", "cancelled", "moved"}

BookingArgs(client_id, package_id, agent_id, status, moved_to_booking_id) ==
    [client_id |-> client_id, package_id |-> package_id, agent_id |-> agent_id,
     travelling_from |-> "None", status |-> status,
     moved_to_booking_id |-> moved_to_booking_id]

BkSetup ==
    \/ create_client(1, ClientArgs(Name1, Name1, NoneStr, <<"P", "1">>, NoneId))
    \/ create_hajj_package(1, PackageArgs(2030, 1, 1, 1, 1))
    \/ create_agent(1, AgentArgs(Name1, Name1, <<"K", "7">>))

BkCreate ==
    \E id \in BookingIds, a \in {NoneId, 1}, m \in {NoneId} \cup BookingIds :
        create_booking(id, BookingArgs(1, 1, a, "registered", m))

BkDelete == \E id \in BookingIds : delete_booking(id)

BkUpdateStatus ==
    \E id \in BookingIds, st \in {"completed"} : update_status(id, st)

BkAssignAgent == \E id \in BookingIds, a \in {NoneId, 1, 2} : assign_agent(id, a)

BkMove == \E id \in BookingIds, m \in BookingIds : move_booking(id, m)

BkMoved == \E id \in BookingIds : get_moved_bookings(id)

NextBooking ==
    \/ BkSetup \/ BkCreate \/ BkDelete \/ BkUpdateStatus \/ BkAssignAgent
    \/ BkMove \/ BkMoved

SpecBooking == Init /\ [][NextBooking]_vars

-----------------------------------------------------------------------------
(* Properties of BookingDAO *)

\* C7: after update_status, assign_agent or move_booking is applied to an
\* existing booking, the value it returns and the next get_by_id for that
\* booking show the new status, the new agent_id, or the new
\* moved_to_booking_id respectively.
C7_UpdateReflected ==
    (/\ last.op \in {"update_status", "assign_agent", "move_booking"}
     /\ last.found
     /\ last.exc = "")
    => LET column == IF last.op = "update_status" THEN "status"
                     ELSE IF last.op = "assign_agent" THEN "agent_id"
                     ELSE "moved_to_booking_id"
       IN  /\ \E r \in last.ret : r[column] = last.arg
           /\ get_by_id_booking(last.id) = last.id
           /\ bookings[get_by_id_booking(last.id)][column] = last.arg

\* A booking has been moved to another booking after its status and its
\* agent were changed.
C7_Witness ==
    /\ last.op = "move_booking"
    /\ last.found
    /\ last.exc = ""
    /\ last.arg # last.id
    /\ bookings[last.id].status = "completed"
    /\ bookings[last.id].agent_id = 1

\* C8: in every state reachable by booking create, move_booking and delete,
\* each booking whose moved_to_booking_id is set refers to a booking that
\* currently exists and that is a different booking from itself.
C8_MovedToAnotherExistingBooking ==
    \A b \in DOMAIN bookings :
        bookings[b].moved_to_booking_id # NoneId
        => /\ bookings[b].moved_to_booking_id \in DOMAIN bookings
           /\ bookings[b].moved_to_booking_id # b

\* C23: get_moved_bookings(X) returns exactly the persisted bookings whose
\* moved_to_booking_id equals X; after move_booking(A, B) on existing
\* bookings, get_moved_bookings(B) contains A, and get_moved_bookings(A) does
\* not contain B unless B was itself moved to A.
C23_MovedBookingsPointAtX ==
    /\ last.op = "get_moved_bookings"
       => /\ last.exc = ""
          /\ \A i \in BookingIds :
                i \in last.ret
                <=> (i \in DOMAIN bookings
                     /\ bookings[i].moved_to_booking_id = last.arg)
    /\ (/\ last.op = "move_booking"
        /\ last.exc = ""
        /\ last.found
        /\ last.arg \in DOMAIN bookings)
       => /\ last.id \in MovedBookings(last.arg)
          /\ last.arg \in MovedBookings(last.id)
             => bookings[last.arg].moved_to_booking_id = last.id

\* Booking A has been moved to another booking B that was not moved to A:
\* the query for B holds A and the query for A does not hold B.
C23_Witness ==
    /\ last.op = "move_booking"
    /\ last.exc = ""
    /\ last.found
    /\ last.arg \in DOMAIN bookings
    /\ last.arg # last.id
    /\ last.id \in MovedBookings(last.arg)
    /\ last.arg \notin MovedBookings(last.id)

-----------------------------------------------------------------------------
(* CommissionDAO *)

get_by_id_commission(commission_id) ==
    ScalarOneOrNone({i \in DOMAIN commissions : i = commission_id})

\* c: the arguments (agent_id, booking_id, commission_amount, status).
create_commission(id, c) ==
    /\ FreshKey(commissions, id)
    /\ LET rec == [op |-> "create_commission", id |-> id]
       IN  Flush(agents, clients, packages, bookings,
                 Insert(commissions, id, c), payments, notes,
                 rec @@ [exc |-> ""],
                 [rec EXCEPT !.id = NoneId] @@ [exc |-> "IntegrityError"])

CommissionUpdate(op, commission_id, column, value) ==
    LET rec == [op |-> op, id |-> commission_id, arg |-> value,
                found |-> commission_id \in DOMAIN commissions]
        new == UpdateRow(commissions, commission_id, [f \in {column} |-> value])
    IN  Flush(agents, clients, packages, bookings, new, payments, notes,
              rec @@ [exc |-> "", ret |-> Returned(new, commission_id)],
              rec @@ [exc |-> "IntegrityError"])

update_commission_status(commission_id, new_status) ==
    CommissionUpdate("update_commission_status", commission_id, "status", new_status)

update_amount(commission_id, new_amount) ==
    CommissionUpdate("update_amount", commission_id, "commission_amount", new_amount)

\* delete(Commission).where(Commission.id == commission_id); rowcount > 0
delete_commission(commission_id) ==
    LET rec == [op |-> "delete_commission", id |-> commission_id,
                found |-> commission_id \in DOMAIN commissions]
    IN  Flush(agents, clients, packages, bookings,
              DeleteRows(commissions, {commission_id}), payments, notes,
              rec @@ [exc |-> "", ret |-> commission_id \in DOMAIN commissions],
              rec @@ [exc |-> "IntegrityError"])

CommissionArgs(agent_id, booking_id, commission_amount, status) ==
    [agent_id |-> agent_id, booking_id |-> booking_id,
     commission_amount |-> commission_amount, status |-> status]

-----------------------------------------------------------------------------
(* PaymentTransactionDAO *)

get_by_id_transaction(transaction_id) ==
    ScalarOneOrNone({i \in DOMAIN payments : i = transaction_id})

\* t: the arguments (booking_id, amount, payment_type).
create_payment_transaction(id, t) ==
    /\ FreshKey(payments, id)
    /\ LET rec == [op |-> "create_payment_transaction", id |-> id]
       IN  Flush(agents, clients, packages, bookings, commissions,
                 Insert(payments, id, t), notes,
                 rec @@ [exc |-> ""],
                 [rec EXCEPT !.id = NoneId] @@ [exc |-> "IntegrityError"])

TransactionUpdate(op, transaction_id, column, value) ==
    LET rec == [op |-> op, id |-> transaction_id, arg |-> value,
                found |-> transaction_id \in DOMAIN payments]
        new == UpdateRow(payments, transaction_id, [f \in {column} |-> value])
    IN  Flush(agents, clients, packages, bookings, commissions, new, notes,
              rec @@ [exc |-> "", ret |-> Returned(new, transaction_id)],
              rec @@ [exc |-> "IntegrityError"])

update_transaction_amount(transaction_id, new_amount) ==
    TransactionUpdate("update_transaction_amount", transaction_id, "amount", new_amount)

update_payment_type(transaction_id, new_type) ==
    TransactionUpdate("update_payment_type", transaction_id, "payment_type", new_type)

delete_transaction(transaction_id) ==
    LET rec == [op |-> "delete_transaction", id |-> transaction_id,
                found |-> transaction_id \in DOMAIN payments]
    IN  Flush(agents, clients, packages, bookings, commissions,
              DeleteRows(payments, {transaction_id}), notes,
              rec @@ [exc |-> ""],
              rec @@ [exc |-> "IntegrityError"])

PaymentArgs(booking_id, amount, payment_type) ==
    [booking_id |-> booking_id, amount |-> amount, payment_type |-> payment_type]

-----------------------------------------------------------------------------
(* Specification of commissions and payment transactions: one client, package,
   agent and booking, and the commissions and payments recorded for them *)

MaxMoneyRows == 1

MoneyIds == 1..MaxMoneyRows

\* The int arguments tried: a negative, zero and a positive amount.
Amounts == {-1, 0, 5}

MoneySetup ==
    \/ create_client(1, ClientArgs(Name1, Name1, NoneStr, <<"P", "1">>, NoneId))
    \/ create_hajj_package(1, PackageArgs(2030, 1, 1, 1, 1))
    \/ create_agent(1, AgentArgs(Name1, Name1, <<"K", "7">>))
    \/ create_booking(1, BookingArgs(1, 1, 1, "registered", NoneId))

MoneyCommissionCreate ==
    \E id \in MoneyIds, a \in Amounts, b \in {1, 2} :
        create_commission(id, CommissionArgs(1, b, a, "pending"))

MoneyCommissionAmount ==
    \E id \in MoneyIds \cup {MaxMoneyRows + 1}, a \in Amounts : update_amount(id, a)

MoneyPaymentCreate ==
    \E id \in MoneyIds, a \in Amounts, b \in {1, 2} :
        create_payment_transaction(id, PaymentArgs(b, a, "registration"))

MoneyPaymentAmount ==
    \E id \in MoneyIds \cup {MaxMoneyRows + 1}, a \in Amounts :
        update_transaction_amount(id, a)

NextMoney ==
    \/ MoneySetup
    \/ MoneyCommissionCreate
    \/ MoneyCommissionAmount
    \/ MoneyPaymentCreate
    \/ MoneyPaymentAmount

SpecMoney == Init /\ [][NextMoney]_vars

\* C9: in every state reachable through CommissionDAO.create / update_amount
\* and PaymentTransactionDAO.create_payment_transaction /
\* update_transaction_amount, every persisted commission_amount and every
\* persisted payment amount is a non-negative integer.
C9_AmountsNonNegative ==
    /\ \A i \in DOMAIN commissions :
         commissions[i].commission_amount \in Int /\ commissions[i].commission_amount >= 0
    /\ \A i \in DOMAIN payments :
         payments[i].amount \in Int /\ payments[i].amount >= 0

-----------------------------------------------------------------------------
(* The hajj-package HTTP surface: POST / *)

\* A request body is a function from the field names it carries to their
\* values; a field the body lacks is outside its domain.
RequiredFields ==
    {"year", "local_price", "diaspora_price", "registration_fee", "commission_amount"}

PriceFields == RequiredFields \ {"year"}

\* Field(..., ge=2000) and Field(..., ge=0)
MinYear == 2000
MinPrice == 0

HajjPackageInputDTO_YearUnchecked(payload) ==
    /\ RequiredFields \subseteq DOMAIN payload
    /\ \A f \in PriceFields : payload[f] >= MinPrice

\* HajjPackageInputDTO: whether the body validates.
HajjPackageInputDTO(payload) ==
    /\ RequiredFields \subseteq DOMAIN payload
    /\ payload["year"] >= MinYear
    /\ \A f \in PriceFields : payload[f] >= MinPrice

\* payload.dict(): the validated fields, and description with its default.
PayloadDict(payload) ==
    [f \in RequiredFields \cup {"description"} |->
        IF f \in DOMAIN payload THEN payload[f] ELSE NoneStr]

\* POST /: a body that does not validate is answered 422 before the handler
\* runs; otherwise the handler calls dao.create_hajj_package(**payload.dict()).
http_create_hajj_package(id, payload) ==
    LET rec == [op |-> "POST /", id |-> NoneId, exc |-> "", payload |-> payload]
    IN  IF ~HajjPackageInputDTO(payload)
        THEN /\ UNCHANGED <<tables, sessions>>
             /\ last' = rec @@ [status |-> 422]
        ELSE /\ FreshKey(packages, id)
             /\ Flush(agents, clients, Insert(packages, id, PayloadDict(payload)),
                      bookings, commissions, payments, notes,
                      [rec EXCEPT !.id = id] @@ [status |-> 200],
                      [rec EXCEPT !.exc = "IntegrityError"] @@ [status |-> 500])

-----------------------------------------------------------------------------
(* Specification of the hajj-package HTTP surface *)

MaxPackages == 2

PackageIds == 1..MaxPackages

\* The values tried for a field: each bound and the value just below it, and
\* one more price.
FieldValues(f) ==
    IF f = "year" THEN {MinYear - 1, MinYear}
    ELSE IF f = "local_price" THEN {MinPrice - 1, MinPrice, 5}
    ELSE {MinPrice - 1, MinPrice}

Payloads ==
    UNION { {p \in [S -> {MinYear - 1, MinYear, MinPrice - 1, MinPrice, 5}] :
                \A f \in S : p[f] \in FieldValues(f)} : S \in SUBSET RequiredFields }

HttpCreate ==
    \E id \in PackageIds, payload \in Payloads : http_create_hajj_package(id, payload)

NextHttp == HttpCreate

SpecHttp == Init /\ [][NextHttp]_vars

\* C6: a create request whose local_price, diaspora_price, registration_fee or
\* commission_amount is negative, whose year is below 2000, or which lacks a
\* required field is rejected with 422, and no hajj package is persisted by
\* that request.
C6_InvalidCreateRejected ==
    [][ (/\ last'.op = "POST /"
         /\ \/ \E f \in PriceFields \cap DOMAIN last'.payload : last'.payload[f] < 0
            \/ ("year" \in DOMAIN last'.payload /\ last'.payload["year"] < 2000)
            \/ \E f \in RequiredFields : f \notin DOMAIN last'.payload)
        => (last'.status = 422 /\ packages' = packages) ]_vars

\* Packages are persisted, and a request that has every field and only a
\* year below 2000 wrong has just been rejected.
C6_Witness ==
    /\ last.op = "POST /"
    /\ RequiredFields \subseteq DOMAIN last.payload
    /\ last.payload["year"] = 1999
    /\ \A f \in PriceFields : last.payload[f] >= 0
    /\ last.status = 422
    /\ Cardinality(DOMAIN packages) >= 1

-----------------------------------------------------------------------------
(* HajjPackageDAO.get_package_by_id / delete_package and NoteDAO *)

get_package_by_id_Missing(package_id) == NoneId

get_package_by_id(package_id) ==
    ScalarOneOrNone({i \in DOMAIN packages : i = package_id})

\* delete(HajjPackage).where(HajjPackage.id == package_id); commit;
\* rowcount > 0
delete_package(package_id) ==
    LET rec == [op |-> "delete_package", id |-> package_id,
                found |-> package_id \in DOMAIN packages]
    IN  Flush(agents, clients, DeleteRows(packages, {package_id}), bookings,
              commissions, payments, notes,
              rec @@ [exc |-> "", ret |-> package_id \in DOMAIN packages],
              rec @@ [exc |-> "IntegrityError"])

get_by_id_note(note_id) ==
    ScalarOneOrNone({i \in DOMAIN notes : i = note_id})

\* n: the arguments (client_id, content, created_by).
create_note(id, n) ==
    /\ FreshKey(notes, id)
    /\ LET rec == [op |-> "create_note", id |-> id]
       IN  Flush(agents, clients, packages, bookings, commissions, payments,
                 Insert(notes, id, n),
                 rec @@ [exc |-> ""],
                 [rec EXCEPT !.id = NoneId] @@ [exc |-> "IntegrityError"])

delete_note(note_id) ==
    LET rec == [op |-> "delete_note", id |-> note_id,
                found |-> note_id \in DOMAIN notes]
    IN  Flush(agents, clients, packages, bookings, commissions, payments,
              DeleteRows(notes, {note_id}),
              rec @@ [exc |-> ""],
              rec @@ [exc |-> "IntegrityError"])

NoteArgs(client_id, content) ==
    [client_id |-> client_id, content |-> content, created_by |-> NoneId]

\* update(Note).where(Note.id == note_id).values(content=new_content),
\* session.commit, return get_by_id(note_id).
update_content(note_id, new_content) ==
    LET rec == [op |-> "update_content", id |-> note_id, arg |-> new_content,
                found |-> note_id \in DOMAIN notes]
        new == UpdateRow(notes, note_id, [f \in {"content"} |-> new_content])
    IN  Flush(agents, clients, packages, bookings, commissions, payments, new,
              rec @@ [exc |-> "", ret |-> Returned(new, note_id)],
              rec @@ [exc |-> "IntegrityError"])

-----------------------------------------------------------------------------
(* The hajj-package HTTP surface: GET, PUT and DELETE /{package_id} *)

UpdateFields == RequiredFields \cup {"description"}

\* Field(None, max_length=1000)
MaxDescriptionLength == 1000

\* HajjPackageUpdateDTO: every field Optional with default None; a value
\* other than None has to meet the field's bound.
HajjPackageUpdateDTO(payload) ==
    /\ DOMAIN payload \subseteq UpdateFields
    /\ \A f \in DOMAIN payload :
         IF f = "description"
         THEN payload[f] = NoneStr \/ Len(payload[f]) <= MaxDescriptionLength
         ELSE \/ payload[f] = NoneInt
              \/ payload[f] >= (IF f = "year" THEN MinYear ELSE MinPrice)

\* payload.dict(exclude_unset=True): the fields the body carries, a field
\* sent as null included.
PayloadDictExcludeUnset(payload) == payload

NotFoundDetail == "Hajj package not found"

\* GET /{package_id}
http_get_hajj_package(package_id) ==
    LET package == get_package_by_id(package_id)
        rec == [op |-> "GET /{package_id}", id |-> package_id, exc |-> ""]
    IN  /\ UNCHANGED <<tables, sessions>>
        /\ IF package = NoneId
           THEN last' = rec @@ [status |-> 404, detail |-> NotFoundDetail]
           ELSE last' = rec @@ [status |-> 200, body |-> packages[package]]

\* PUT /{package_id}: dao.update_package(package_id, **kwargs) runs the UPDATE
\* and then selects the row again.
http_update_hajj_package(package_id, payload) ==
    LET rec == [op |-> "PUT /{package_id}", id |-> package_id, exc |-> "",
                payload |-> payload]
        pk == UpdateRow(packages, package_id, PayloadDictExcludeUnset(payload))
    IN  IF ~HajjPackageUpdateDTO(payload)
        THEN /\ UNCHANGED <<tables, sessions>>
             /\ last' = rec @@ [status |-> 422]
        ELSE Flush(agents, clients, pk, bookings, commissions, payments, notes,
                   IF package_id \in DOMAIN pk
                   THEN rec @@ [status |-> 200, body |-> pk[package_id]]
                   ELSE rec @@ [status |-> 404, detail |-> NotFoundDetail],
                   [rec EXCEPT !.exc = "IntegrityError"] @@ [status |-> 500])

\* DELETE /{package_id}: dao.delete_package(package_id) runs the DELETE,
\* commits and returns result.rowcount > 0.
http_delete_hajj_package(package_id) ==
    LET rec == [op |-> "DELETE /{package_id}", id |-> package_id, exc |-> ""]
        success == package_id \in DOMAIN packages
    IN  Flush(agents, clients, DeleteRows(packages, {package_id}), bookings,
              commissions, payments, notes,
              IF success
              THEN rec @@ [status |-> 204]
              ELSE rec @@ [status |-> 404, detail |-> NotFoundDetail],
              [rec EXCEPT !.exc = "IntegrityError"] @@ [status |-> 500])

-----------------------------------------------------------------------------
(* Specification of the hajj-package routes on stored packages, some of them
   booked *)

\* Ids asked for: those of the packages that can exist and one more.
RouteIds == 1..(MaxPackages + 1)

\* Bodies of PUT: any of year and description, null included.
UpdatePayloads ==
    LET years == {NoneInt, MinYear - 1, MinYear + 1}
        descriptions == {NoneStr, <<"d">>}
    IN  {EmptyTable}
        \cup { [f \in {"year"} |-> y] : y \in years }
        \cup { [f \in {"description"} |-> d] : d \in descriptions }
        \cup { [year |-> y, description |-> d] : y \in years, d \in descriptions }

RouteCreate ==
    \E id \in PackageIds :
        http_create_hajj_package(id,
            [f \in RequiredFields |-> IF f = "year" THEN MinYear ELSE 5])

RouteBook ==
    \/ create_client(1, ClientArgs(Name1, Name1, NoneStr, <<"P", "1">>, NoneId))
    \/ \E p \in PackageIds :
         create_booking(1, BookingArgs(1, p, NoneId, "registered", NoneId))

RouteGet == \E id \in RouteIds : http_get_hajj_package(id)

RouteUpdate ==
    \E id \in RouteIds, payload \in UpdatePayloads : http_update_hajj_package(id, payload)

RouteDelete == \E id \in RouteIds : http_delete_hajj_package(id)

NextRoutes == RouteCreate \/ RouteBook \/ RouteGet \/ RouteUpdate \/ RouteDelete

SpecRoutes == Init /\ [][NextRoutes]_vars

\* C12: GET /{package_id} answers 200 with the stored package when a package
\* with that id exists and 404 with detail "Hajj package not found" when none
\* exists, and in both cases leaves the persisted packages as they were.
C12_GetByIdFoundOrNotFound ==
    [][ last'.op = "GET /{package_id}"
        => /\ packages' = packages
           /\ last'.id \in DOMAIN packages
                => (last'.status = 200 /\ last'.body = packages[last'.id])
           /\ last'.id \notin DOMAIN packages
                => (last'.status = 404 /\ last'.detail = "Hajj package not found") ]_vars

\* A stored package whose fields were updated has just been fetched.
C12_Witness ==
    /\ last.op = "GET /{package_id}"
    /\ last.status = 200
    /\ last.body.year = MinYear + 1
    /\ Cardinality(DOMAIN packages) >= 2

\* The package a PUT with body `payload` is to leave behind.
Merged(row, payload) ==
    [f \in DOMAIN row |-> IF f \in DOMAIN payload THEN payload[f] ELSE row[f]]

\* C13: a PUT /{package_id} whose body validates, applied to an existing
\* package, sets exactly the fields the body carries to the values supplied
\* and leaves every other field of that package and every other package as
\* it was; applied to an id with no package it answers 404 and changes
\* nothing.
C13_UpdateSetsPayloadFields ==
    [][ (last'.op = "PUT /{package_id}" /\ last'.status # 422)
        => IF last'.id \in DOMAIN packages
           THEN packages' = [packages EXCEPT
                                ![last'.id] = Merged(packages[last'.id], last'.payload)]
           ELSE last'.status = 404 /\ tables' = tables ]_vars

\* C14: DELETE /{package_id} answers 204 exactly when a package with that id
\* existed and the request removed it, and 404 when no such package exists
\* (so a second delete of the same id answers 404).
C14_DeleteAnswers ==
    [][ last'.op = "DELETE /{package_id}"
        => /\ last'.status = 204
                <=> (last'.id \in DOMAIN packages /\ last'.id \notin DOMAIN packages')
           /\ last'.id \notin DOMAIN packages
                => (last'.status = 404 /\ packages' = packages) ]_vars

\* A package has just been deleted while another one stays.
C14_Witness ==
    /\ last.op = "DELETE /{package_id}"
    /\ last.status = 204
    /\ last.id \notin DOMAIN packages
    /\ packages # EmptyTable

-----------------------------------------------------------------------------
(* Specification of the seven tables together: creates and deletes *)

\* Two keys per table, and at most MaxTotalRows rows in the seven tables
\* together (a commission needs an agent, a client, a package and a booking:
\* five rows).
RowIds == {1, 2}

MaxTotalRows == 5

TotalRows ==
    Cardinality(DOMAIN agents) + Cardinality(DOMAIN clients)
    + Cardinality(DOMAIN packages) + Cardinality(DOMAIN bookings)
    + Cardinality(DOMAIN commissions) + Cardinality(DOMAIN payments)
    + Cardinality(DOMAIN notes)

\* A character per key, to give each row its own code or passport number.
KeyChar(id) == <<"1", "2", "3", "4", "5", "6", "7", "8", "9">>[id]

AllCreateAgent ==
    \E id \in RowIds : create_agent(id, AgentArgs(Name1, Name1, <<"K", KeyChar(id)>>))

AllCreateClient ==
    \E id \in RowIds, r \in {NoneId} \cup RowIds :
        create_client(id, ClientArgs(Name1, Name1, NoneStr, <<"P", KeyChar(id)>>, r))

AllCreatePackage ==
    \E id \in RowIds : create_hajj_package(id, PackageArgs(2030, 1, 1, 1, 1))

AllCreateBooking ==
    \E id \in RowIds, c \in RowIds, p \in RowIds, a \in {NoneId} \cup RowIds :
        create_booking(id, BookingArgs(c, p, a, "registered", NoneId))

AllCreateCommission ==
    \E id \in RowIds, a \in RowIds, b \in RowIds :
        create_commission(id, CommissionArgs(a, b, 5, "pending"))

AllCreatePayment ==
    \E id \in RowIds, b \in RowIds :
        create_payment_transaction(id, PaymentArgs(b, 5, "registration"))

AllCreateNote ==
    \E id \in RowIds, c \in RowIds : create_note(id, NoteArgs(c, <<"h", "i">>))

AllCreate ==
    /\ TotalRows < MaxTotalRows
    /\ \/ AllCreateAgent
       \/ AllCreateClient
       \/ AllCreatePackage
       \/ AllCreateBooking
       \/ AllCreateCommission
       \/ AllCreatePayment
       \/ AllCreateNote

AllDelete ==
    \E id \in RowIds :
        \/ delete_agent(id)
        \/ delete_client(id)
        \/ delete_package(id)
        \/ delete_booking(id)
        \/ delete_commission(id)
        \/ delete_transaction(id)
        \/ delete_note(id)

NextAll == AllCreate \/ AllDelete

SpecAll == Init /\ [][NextAll]_vars

-----------------------------------------------------------------------------
(* Delete, then get-by-id *)

\* Per kind of entity: the delete operation, the operations that create a
\* record, and get-by-id.
Kinds == {"agent", "client", "package", "booking", "commission", "transaction", "note"}

DeleteOp(k) ==
    CASE k = "agent" -> "delete_agent"
      [] k = "client" -> "delete_client"
      [] k = "package" -> "delete_package"
      [] k = "booking" -> "delete_booking"
      [] k = "commission" -> "delete_commission"
      [] k = "transaction" -> "delete_transaction"
      [] k = "note" -> "delete_note"

CreateOps(k) ==
    CASE k = "agent" -> {"create_agent"}
      [] k = "client" -> {"create_client"}
      [] k = "package" -> {"create_hajj_package", "POST /"}
      [] k = "booking" -> {"create_booking"}
      [] k = "commission" -> {"create_commission"}
      [] k = "transaction" -> {"create_payment_transaction"}
      [] k = "note" -> {"create_note"}

GetById(k, id) ==
    CASE k = "agent" -> get_by_id_agent(id)
      [] k = "client" -> get_by_id_client(id)
      [] k = "package" -> get_package_by_id(id)
      [] k = "booking" -> get_by_id_booking(id)
      [] k = "commission" -> get_by_id_commission(id)
      [] k = "transaction" -> get_by_id_transaction(id)
      [] k = "note" -> get_by_id_note(id)

\* C4: for every kind of entity, once its delete operation has been applied
\* to an existing record's id (and has returned), get-by-id for that id
\* returns None, and goes on returning None until a record with that id is
\* created again.
C4_DeletedStaysNotFound ==
    [][ \A k \in Kinds :
          /\ (last'.op = DeleteOp(k) /\ last'.exc = "" /\ last'.id \in RowIds)
               => \E id \in {last'.id} : GetById(k, id)' = NoneId
          /\ \A id \in RowIds :
               (GetById(k, id) = NoneId /\ GetById(k, id)' # NoneId)
               => (last'.op \in CreateOps(k) /\ last'.id = id) ]_vars

\* A client that had a booking and a note has just been deleted.
C4_Witness ==
    /\ last.op = "delete_client"
    /\ last.found
    /\ last.exc = ""
    /\ last.id \notin DOMAIN clients
    /\ last.bookings # {}
    /\ last.notes # {}
    /\ \A b \in last.bookings : b \notin DOMAIN bookings

\* C15: whenever delete_client returns True, the client and all bookings and
\* notes that referenced it are no longer persisted, and no remaining booking
\* or note references the deleted client.
C15_DeleteClientCascades ==
    [][ (last'.op = "delete_client" /\ last'.exc = "" /\ last'.ret)
        => /\ last'.id \in DOMAIN clients
           /\ last'.id \notin DOMAIN clients'
           /\ \A b \in DOMAIN bookings :
                bookings[b].client_id = last'.id => b \notin DOMAIN bookings'
           /\ \A n \in DOMAIN notes :
                notes[n].client_id = last'.id => n \notin DOMAIN notes'
           /\ \A b \in DOMAIN bookings' : bookings'[b].client_id # last'.id
           /\ \A n \in DOMAIN notes' : notes'[n].client_id # last'.id ]_vars

\* A client with a booking and a note has just been deleted while another
\* client stays.
C15_Witness ==
    /\ last.op = "delete_client"
    /\ last.exc = ""
    /\ last.ret
    /\ last.bookings # {}
    /\ last.notes # {}
    /\ clients # EmptyTable
    /\ \A n \in last.notes : n \notin DOMAIN notes

\* C20: BookingDAO.delete and CommissionDAO.delete return True exactly when a
\* record with the given id existed and was removed, and return False when no
\* such record exists, in which case the persisted records are unchanged.
C20_DeleteReturnsWhetherRemoved ==
    [][ /\ last'.op = "delete_booking"
            => /\ last'.id \notin DOMAIN bookings
                    => (last'.exc = "" /\ ~last'.ret /\ tables' = tables)
               /\ last'.exc = ""
                    => (last'.ret <=> (/\ last'.id \in DOMAIN bookings
                                       /\ last'.id \notin DOMAIN bookings'))
        /\ last'.op = "delete_commission"
            => /\ last'.id \notin DOMAIN commissions
                    => (last'.exc = "" /\ ~last'.ret /\ tables' = tables)
               /\ last'.exc = ""
                    => (last'.ret <=> (/\ last'.id \in DOMAIN commissions
                                       /\ last'.id \notin DOMAIN commissions')) ]_vars

\* A commission has just been deleted, and its booking is still there.
C20_Witness ==
    /\ last.op = "delete_commission"
    /\ last.exc = ""
    /\ last.ret
    /\ last.id \notin DOMAIN commissions
    /\ bookings # EmptyTable

\* Every reference of a persisted row names a persisted row.
NoDanglingReference ==
    /\ \A b \in DOMAIN bookings :
          /\ bookings[b].client_id \in DOMAIN clients
          /\ bookings[b].package_id \in DOMAIN packages
          /\ bookings[b].agent_id # NoneId => bookings[b].agent_id \in DOMAIN agents
    /\ \A c \in DOMAIN commissions :
          /\ commissions[c].agent_id \in DOMAIN agents
          /\ commissions[c].booking_id \in DOMAIN bookings
    /\ \A t \in DOMAIN payments : payments[t].booking_id \in DOMAIN bookings
    /\ \A n \in DOMAIN notes : notes[n].client_id \in DOMAIN clients

\* The agent, package or booking that the delete recorded in last' is
\* addressed to is referenced by a persisted row.
DeletesReferenced ==
    \/ /\ last'.op = "delete_agent"
       /\ \/ \E c \in DOMAIN clients : clients[c].referee_id = last'.id
          \/ \E b \in DOMAIN bookings : bookings[b].agent_id = last'.id
          \/ \E c \in DOMAIN commissions : commissions[c].agent_id = last'.id
    \/ /\ last'.op = "delete_package"
       /\ \E b \in DOMAIN bookings : bookings[b].package_id = last'.id
    \/ /\ last'.op = "delete_booking"
       /\ \/ \E c \in DOMAIN commissions : commissions[c].booking_id = last'.id
          \/ \E t \in DOMAIN payments : payments[t].booking_id = last'.id

\* The create recorded in last' has stored a row one of whose references
\* named no persisted row when the create was called.
CreatedWithDanglingReference ==
    /\ last'.exc = ""
    /\ \/ /\ last'.op = "create_booking"
          /\ \/ bookings'[last'.id].client_id \notin DOMAIN clients
             \/ bookings'[last'.id].package_id \notin DOMAIN packages
             \/ /\ bookings'[last'.id].agent_id # NoneId
                /\ bookings'[last'.id].agent_id \notin DOMAIN agents
       \/ /\ last'.op = "create_commission"
          /\ \/ commissions'[last'.id].agent_id \notin DOMAIN agents
             \/ commissions'[last'.id].booking_id \notin DOMAIN bookings
       \/ /\ last'.op = "create_payment_transaction"
          /\ payments'[last'.id].booking_id \notin DOMAIN bookings
       \/ /\ last'.op = "create_note"
          /\ notes'[last'.id].client_id \notin DOMAIN clients

\* C29: referential integrity holds in every reachable state: every booking
\* references an existing client and package (and an existing agent when
\* agent_id is set), every commission an existing agent and booking, every
\* payment transaction an existing booking, every note an existing client;
\* a create with a dangling reference, or a delete of an agent, package or
\* booking that is still referenced, fails and leaves the persisted records
\* unchanged.
C29_ReferentialIntegrity ==
    /\ NoDanglingReference
    /\ [][ /\ ~CreatedWithDanglingReference
           /\ DeletesReferenced => last'.exc = "IntegrityError"
           /\ last'.exc = "IntegrityError" => tables' = tables ]_vars

\* The delete of an agent that a commission references has just failed.
C29_Witness ==
    /\ last.op = "delete_agent"
    /\ last.exc = "IntegrityError"
    /\ \E c \in DOMAIN commissions : commissions[c].agent_id = last.id
    /\ NoDanglingReference

-----------------------------------------------------------------------------
(* Sessions: DAO methods inside an open unit of work *)

\* What a session sees of a table: the committed rows and the rows it has
\* flushed itself.
Seen(tbl, pending) ==
    [i \in DOMAIN tbl \cup DOMAIN pending |->
        IF i \in DOMAIN pending THEN pending[i] ELSE tbl[i]]

SeenAgents(s) == Seen(agents, sessions[s].agents)

SeenPackages(s) == Seen(packages, sessions[s].packages)

\* A primary key no committed row and no flushed row of any session has.
FreshAmongAll(tbl, col, id) ==
    FreshKey([i \in DOMAIN tbl \cup UNION {DOMAIN sessions[t][col] : t \in SessionIds}
                 |-> 0], id)

\* Another session has flushed, and not yet committed or rolled back, an
\* agent with this code: the store makes an INSERT of the same code wait
\* for that session to end.
OthersHold(s, code) ==
    \E t \in SessionIds \ {s} :
        \E i \in DOMAIN sessions[t].agents : sessions[t].agents[i].agent_code = code

SessionStep(s, rec) ==
    /\ sessions' = [sessions EXCEPT ![s] = rec]
    /\ UNCHANGED <<tables, last>>

\* A request opens its unit of work.
begin(s) ==
    /\ sessions[s].pc = "closed"
    /\ SessionStep(s, [ClosedSession EXCEPT !.pc = "open",
                                            !.begin = <<agents, clients, packages>>])

\* create_agent, lines 54-55: with a falsy agent_code the generator runs.
create_agent_call(s, agent_code) ==
    /\ sessions[s].pc = "open"
    /\ SessionStep(s, IF Falsy(agent_code)
                      THEN [sessions[s] EXCEPT !.pc = "generating", !.retries = 0,
                                               !.code = NoneStr]
                      ELSE [sessions[s] EXCEPT !.pc = "generated", !.code = agent_code])

MaxRetries == 2

\* _generate_agent_code, one iteration of `while True`: `code` is the
\* candidate drawn; it is returned when get_by_code does not find it.
generate_iteration(s, code) ==
    /\ sessions[s].pc = "generating"
    /\ LET own == {i \in DOMAIN sessions[s].agents :
                        sessions[s].agents[i].agent_code = code}
           existing == IF own # {} THEN ScalarOneOrNone(own) ELSE get_by_code(code)
       IN  SessionStep(s,
              IF existing = MultipleResultsFound
              THEN [sessions[s] EXCEPT !.pc = "failed", !.exc = "MultipleResultsFound"]
              ELSE IF existing = NoneId
              THEN [sessions[s] EXCEPT !.pc = "generated", !.code = code]
              ELSE [sessions[s] EXCEPT
                       !.retries = IF @ < MaxRetries THEN @ + 1 ELSE @])

\* create_agent, lines 57-69: session.add(agent), session.flush().  The
\* INSERT waits while another open session holds the same code, and raises
\* IntegrityError when a row this session can see has it.
create_agent_flush(s, id) ==
    /\ sessions[s].pc = "generated"
    /\ FreshAmongAll(agents, "agents", id)
    /\ ~OthersHold(s, sessions[s].code)
    /\ LET row == AgentArgs(Name1, Name1, sessions[s].code)
       IN  SessionStep(s,
              IF StoreAccepts(Insert(SeenAgents(s), id, row), clients, SeenPackages(s),
                              bookings, commissions, payments, notes)
              THEN [sessions[s] EXCEPT !.pc = "open",
                                       !.agents = Insert(@, id, row)]
              ELSE [sessions[s] EXCEPT !.pc = "failed", !.exc = "IntegrityError"])

\* create_hajj_package in an open session: session.add, session.flush.
session_create_hajj_package(s, id, p) ==
    /\ sessions[s].pc = "open"
    /\ FreshAmongAll(packages, "packages", id)
    /\ SessionStep(s,
          IF StoreAccepts(SeenAgents(s), clients, Insert(SeenPackages(s), id, p),
                          bookings, commissions, payments, notes)
          THEN [sessions[s] EXCEPT !.packages = Insert(@, id, p)]
          ELSE [sessions[s] EXCEPT !.pc = "failed", !.exc = "IntegrityError"])

\* session.commit() called by a DAO method or by the end of the request:
\* the tables the session sees become the committed ones.
SessionCommit(s, cl, pk, rec) ==
    /\ agents' = SeenAgents(s)
    /\ clients' = cl
    /\ packages' = pk
    /\ sessions' = [sessions EXCEPT ![s] = rec]
    /\ UNCHANGED <<bookings, commissions, payments, notes, last>>

\* create_client in an open session: session.add(client), session.commit().
session_create_client(s, id, c) ==
    /\ sessions[s].pc = "open"
    /\ FreshKey(clients, id)
    /\ LET cl == Insert(clients, id, c)
       IN  IF StoreAccepts(SeenAgents(s), cl, SeenPackages(s),
                           bookings, commissions, payments, notes)
           THEN SessionCommit(s, cl, SeenPackages(s),
                    [sessions[s] EXCEPT !.agents = EmptyTable, !.packages = EmptyTable])
           ELSE SessionStep(s, [sessions[s] EXCEPT !.pc = "failed",
                                                   !.exc = "IntegrityError"])

\* delete_package in an open session: the DELETE, then session.commit().
session_delete_package(s, package_id) ==
    /\ sessions[s].pc = "open"
    /\ LET pk == DeleteRows(SeenPackages(s), {package_id})
       IN  IF StoreAccepts(SeenAgents(s), clients, pk,
                           bookings, commissions, payments, notes)
           THEN SessionCommit(s, clients, pk,
                    [sessions[s] EXCEPT !.agents = EmptyTable, !.packages = EmptyTable])
           ELSE SessionStep(s, [sessions[s] EXCEPT !.pc = "failed",
                                                   !.exc = "IntegrityError"])

\* The request ends well: its unit of work is committed.
commit(s) ==
    /\ sessions[s].pc = "open"
    /\ SessionCommit(s, clients, SeenPackages(s),
          [ClosedSession EXCEPT !.code = sessions[s].code, !.outcome = "committed"])

\* The request ends with an exception: its unit of work is rolled back.
rollback(s) ==
    /\ sessions[s].pc \in {"open", "failed"}
    /\ SessionStep(s, [ClosedSession EXCEPT !.code = sessions[s].code,
                                            !.exc = sessions[s].exc,
                                            !.outcome = "rolled back"])

-----------------------------------------------------------------------------
(* Specification of one request at a time: a session that calls DAO methods
   and then commits or rolls back *)

MaxRequestRows == 2

RequestIds == 1..MaxRequestRows

RequestCodes == { <<"X", "9">>, <<"K", "7">> }

ReqBegin == begin(1)

ReqAgentCall == \E c \in RequestCodes : create_agent_call(1, c)

ReqAgentFlush == \E id \in RequestIds : create_agent_flush(1, id)

ReqCreatePackage ==
    \E id \in RequestIds :
        session_create_hajj_package(1, id, PackageArgs(2030, 1, 1, 1, 1))

ReqCreateClient ==
    \E id \in RequestIds, p \in {<<"P", "1">>, <<"P", "2">>} :
        session_create_client(1, id, ClientArgs(Name1, Name1, NoneStr, p, NoneId))

ReqDeletePackage == \E id \in RequestIds : session_delete_package(1, id)

ReqCommit == commit(1)

ReqRollback == rollback(1)

NextRequest ==
    \/ ReqBegin
    \/ ReqAgentCall
    \/ ReqAgentFlush
    \/ ReqCreatePackage
    \/ ReqCreateClient
    \/ ReqDeletePackage
    \/ ReqCommit
    \/ ReqRollback

SpecRequest == Init /\ [][NextRequest]_vars

\* C16: each request is one atomic unit of work.  While a request is open
\* nothing it has written is committed yet (the committed agents, clients
\* and packages are those of its beginning), and when it ends the committed
\* tables are either those the request saw at its end (all its writes
\* committed together) or those of its beginning (all rolled back together).
C16_RequestIsAtomic ==
    /\ [](sessions[1].pc # "closed"
            => <<agents, clients, packages>> = sessions[1].begin)
    /\ [][ (sessions[1].pc # "closed" /\ sessions'[1].pc = "closed")
            => \/ <<agents, clients, packages>>' = sessions[1].begin
               \/ <<agents, clients, packages>>'
                     = <<SeenAgents(1), clients, SeenPackages(1)>> ]_vars

-----------------------------------------------------------------------------
(* Specification of concurrent create_agent calls without an explicit code,
   each in a session of its own *)

\* The candidates the generator draws in this specification.
RaceCodes ==
    { c \in CodeCandidates :
        c \in { <<"A", "A", "A", "0", "0">>, <<"0", "0", "A", "A", "A">>,
                <<"A", "0", "A", "0", "A">> } }

RaceBegin == \E s \in SessionIds : begin(s)

RaceCall == \E s \in SessionIds : create_agent_call(s, NoneStr)

RaceGenerate == \E s \in SessionIds, c \in RaceCodes : generate_iteration(s, c)

RaceFlush == \E s \in SessionIds, id \in AgentIds : create_agent_flush(s, id)

RaceCommit == \E s \in SessionIds : commit(s)

RaceRollback == \E s \in SessionIds : rollback(s)

NextRace ==
    RaceBegin \/ RaceCall \/ RaceGenerate \/ RaceFlush \/ RaceCommit \/ RaceRollback

SpecRace == Init /\ [][NextRace]_vars

\* random.choices / random.shuffle are fair: while the loop of
\* _generate_agent_code runs, every candidate is drawn again and again.
SpecRaceFair ==
    SpecRace /\ \A s \in SessionIds, c \in RaceCodes : WF_vars(generate_iteration(s, c))

\* C17: when concurrent create_agent calls without an explicit code pass the
\* existence check with the same generated code before either commits, the
\* committed agents still never share a code: a flush whose code a committed
\* agent already holds raises IntegrityError and inserts nothing, the
\* exception is propagated (the session can only be rolled back; the
\* generator is not run again), and no two sessions commit the same code.
C17_RacingCreatesKeepCodesUnique ==
    /\ [](\A i, j \in DOMAIN agents :
              i # j => agents[i].agent_code # agents[j].agent_code)
    /\ [](\A s, t \in SessionIds :
              (/\ s # t
               /\ sessions[s].outcome = "committed"
               /\ sessions[t].outcome = "committed"
               /\ sessions[s].code # NoneStr)
              => sessions[s].code # sessions[t].code)
    /\ [][ \A s \in SessionIds :
              /\ (/\ sessions[s].pc = "generated"
                  /\ sessions'[s] # sessions[s]
                  /\ \E i \in DOMAIN agents : agents[i].agent_code = sessions[s].code)
                 => (/\ sessions'[s].pc = "failed"
                     /\ sessions'[s].exc = "IntegrityError"
                     /\ agents' = agents)
              /\ (sessions[s].pc = "failed" /\ sessions'[s] # sessions[s])
                 => (/\ sessions'[s].pc = "closed"
                     /\ sessions'[s].outcome = "rolled back"
                     /\ agents' = agents) ]_vars

\* Both sessions generated the same code; one has committed its agent and
\* the flush of the other has failed.
C17_Witness ==
    \E s, t \in SessionIds :
        /\ s # t
        /\ sessions[s].outcome = "committed"
        /\ sessions[t].pc = "failed"
        /\ sessions[t].exc = "IntegrityError"
        /\ sessions[s].code = sessions[t].code
        /\ \E i \in DOMAIN agents : agents[i].agent_code = sessions[t].code

\* Some candidate is the code of no agent that get_by_code, run in session
\* s, can find.
FreeCodeExists(s) ==
    \E c \in RaceCodes : \A i \in DOMAIN SeenAgents(s) : SeenAgents(s)[i].agent_code # c

\* C18: _generate_agent_code never returns a code that a persisted agent
\* holds, and, every candidate being drawn again and again, it does not stay
\* in its loop for ever while some code of the 3-letter/2-digit form is
\* unused; nothing bounds the number of iterations.
C18_GeneratorReturnsFreeCode ==
    /\ [][ \A s \in SessionIds :
              (sessions[s].pc = "generating" /\ sessions'[s].pc = "generated")
              => \A i \in DOMAIN SeenAgents(s) :
                    SeenAgents(s)[i].agent_code # sessions'[s].code ]_vars
    /\ \A s \in SessionIds :
          []<>(sessions[s].pc # "generating" \/ ~FreeCodeExists(s))

\* The generator has returned after MaxRetries or more collisions.
C18_Witness ==
    \E s \in SessionIds :
        /\ sessions[s].pc = "generated"
        /\ sessions[s].retries = MaxRetries
        /\ agents # EmptyTable
        /\ \A i \in DOMAIN SeenAgents(s) : SeenAgents(s)[i].agent_code # sessions[s].code

-----------------------------------------------------------------------------
(* HajjPackageDAO.update_package / get_package_by_year *)

\* update(HajjPackage).where(id == package_id).values(**kwargs), then the
\* SELECT of the row.
update_package(package_id, kw) ==
    LET rec == [op |-> "update_package", id |-> package_id, kw |-> kw,
                found |-> package_id \in DOMAIN packages]
    IN  Flush(agents, clients, UpdateRow(packages, package_id, kw), bookings,
              commissions, payments, notes,
              rec @@ [exc |-> "", ret |-> get_package_by_id(package_id)],
              rec @@ [exc |-> "IntegrityError"])

\* select(HajjPackage).where(HajjPackage.year == year); scalar_one_or_none()
get_package_by_year(year) ==
    LET found == ScalarOneOrNone({i \in DOMAIN packages : packages[i].year = year})
        rec == [op |-> "get_package_by_year", id |-> NoneId, year |-> year]
    IN  /\ UNCHANGED <<tables, sessions>>
        /\ IF found = MultipleResultsFound
           THEN last' = rec @@ [exc |-> "MultipleResultsFound"]
           ELSE last' = rec @@ [exc |-> "", ret |-> found]

-----------------------------------------------------------------------------
(* Specification of the hajj packages and their years *)

Years == {2030, 2031, 2032}

PkCreate ==
    \E id \in PackageIds, y \in Years :
        create_hajj_package(id, PackageArgs(y, 1, 1, 1, 1))

PkUpdate ==
    \E id \in 1..(MaxPackages + 1), y \in Years :
        update_package(id, [f \in {"year"} |-> y])

PkDelete == \E id \in PackageIds : delete_package(id)

PkByYear == \E y \in Years : get_package_by_year(y)

NextPackage == PkCreate \/ PkUpdate \/ PkDelete \/ PkByYear

SpecPackage == Init /\ [][NextPackage]_vars

\* C21: get_package_by_year(y) returns the persisted package whose year is y
\* when one exists and None when none exists, in every state reached by
\* creating and updating packages, states where several packages have the
\* same year included.
C21_ByYearFindsPackage ==
    last.op = "get_package_by_year"
    => /\ last.exc = ""
       /\ IF \E i \in DOMAIN packages : packages[i].year = last.year
          THEN last.ret \in DOMAIN packages /\ packages[last.ret].year = last.year
          ELSE last.ret = NoneId

-----------------------------------------------------------------------------
(* ClientDAO.get_by_referee *)

\* The argument of get_by_referee is a uuid.UUID or a str: a record that
\* holds the one and None for the other.
RefereeUUID(id) == [uuid |-> id, str |-> NoneStr]

RefereeStr(code) == [uuid |-> NoneId, str |-> code]

\* isinstance(referee, uuid.UUID)
IsUUID(referee) == referee.uuid # NoneId

\* select(Client).where(Client.referee_id == referee), or
\* select(Client).join(Client.referee).where(Agent.agent_code == referee)
ClientsByReferee(referee) ==
    IF IsUUID(referee)
    THEN {c \in DOMAIN clients : clients[c].referee_id = referee.uuid}
    ELSE {c \in DOMAIN clients :
            \E a \in DOMAIN agents :
                clients[c].referee_id = a /\ agents[a].agent_code = referee.str}

get_by_referee(referee) ==
    /\ UNCHANGED <<tables, sessions>>
    /\ last' = [op |-> "get_by_referee", id |-> NoneId, exc |-> "",
                referee |-> referee, ret |-> ClientsByReferee(referee)]

-----------------------------------------------------------------------------
(* Specification of agents and the clients they referred *)

RefereeCodes == { <<"K", "7">>, <<"X", "9">> }

RfAgent ==
    \E id \in AgentIds, c \in RefereeCodes :
        create_agent(id, AgentArgs(Name1, Name1, c))

RfAgentUpdate ==
    \E id \in AgentIds, c \in RefereeCodes :
        update_agent(id, [f \in {"agent_code"} |-> c])

RfClient ==
    \E id \in ClientIds, r \in {NoneId} \cup AgentIds :
        create_client(id, ClientArgs(Name1, Name1, NoneStr, <<"P", KeyChar(id)>>, r))

RfById == \E a \in AgentIds : get_by_referee(RefereeUUID(a))

RfByCode == \E c \in RefereeCodes : get_by_referee(RefereeStr(c))

NextReferee == RfAgent \/ RfAgentUpdate \/ RfClient \/ RfById \/ RfByCode

SpecReferee == Init /\ [][NextReferee]_vars

ReferredBy(agent_id) == {c \in DOMAIN clients : clients[c].referee_id = agent_id}

\* C27: for every persisted agent, get_by_referee called with the agent's
\* id and called with the agent's agent_code return the same set of clients,
\* namely exactly the clients whose referee_id is that agent's id.
C27_RefereeByIdAndByCodeAgree ==
    /\ \A a \in DOMAIN agents :
          /\ ClientsByReferee(RefereeUUID(a)) = ReferredBy(a)
          /\ ClientsByReferee(RefereeStr(agents[a].agent_code)) = ReferredBy(a)
    /\ last.op = "get_by_referee"
       => \A a \in DOMAIN agents :
             (\/ last.referee = RefereeUUID(a)
              \/ last.referee = RefereeStr(agents[a].agent_code))
             => last.ret = ReferredBy(a)

\* The query by code has answered with the clients of one agent while
\* another agent has clients of its own.
C27_Witness ==
    /\ last.op = "get_by_referee"
    /\ ~IsUUID(last.referee)
    /\ last.ret # {}
    /\ \E a, b \in DOMAIN agents :
          /\ a # b
          /\ agents[a].agent_code = last.referee.str
          /\ last.ret = ReferredBy(a)
          /\ ReferredBy(b) # {}

-----------------------------------------------------------------------------
(* Specification of the update operations: one row of each kind is created,
   and every update is addressed to the key of that row and to a key that no
   row has *)

UpdateIds == {1, 2}

UpSetup ==
    \/ create_agent(1, AgentArgs(Name1, Name1, <<"K", "7">>))
    \/ create_client(1, ClientArgs(Name1, Name1, NoneStr, <<"P", "1">>, NoneId))
    \/ create_hajj_package(1, PackageArgs(2030, 1, 1, 1, 1))
    \/ create_booking(1, BookingArgs(1, 1, NoneId, "registered", NoneId))
    \/ create_commission(1, CommissionArgs(1, 1, 5, "pending"))
    \/ create_payment_transaction(1, PaymentArgs(1, 5, "registration"))
    \/ create_note(1, NoteArgs(1, <<"h", "i">>))

UpAgent ==
    \E id \in UpdateIds :
        \/ update_agent(id, [f \in {"agent_code"} |-> <<"X", "9">>])
        \/ regenerate_agent_code(id)

UpBooking ==
    \E id \in UpdateIds :
        \/ update_status(id, "completed")
        \/ assign_agent(id, 1)
        \/ move_booking(id, 1)

UpCommission ==
    \E id \in UpdateIds :
        \/ update_commission_status(id, "pending")
        \/ update_amount(id, 5)

UpPayment ==
    \E id \in UpdateIds :
        \/ update_transaction_amount(id, 5)
        \/ update_payment_type(id, "registration")

UpNote == \E id \in UpdateIds : update_content(id, <<"y", "o">>)

NextUpdates == UpSetup \/ UpAgent \/ UpBooking \/ UpCommission \/ UpPayment \/ UpNote

SpecUpdates == Init /\ [][NextUpdates]_vars

AgentUpdateOps == {"update_agent", "regenerate_agent_code"}

RowUpdateOps ==
    {"update_status", "assign_agent", "move_booking", "update_commission_status",
     "update_amount", "update_transaction_amount", "update_payment_type",
     "update_content"}

\* C28: an update operation addressed to an id with no record (update_agent,
\* regenerate_agent_code, the three booking updates, the two commission
\* updates, the two payment transaction updates, update_content) returns
\* None and leaves every persisted record unchanged.
C28_UpdateOfMissingReturnsNone ==
    [][ (last'.op \in AgentUpdateOps \cup RowUpdateOps /\ ~last'.found)
        => /\ last'.exc = ""
           /\ last'.op \in AgentUpdateOps => last'.ret = NoneId
           /\ last'.op \in RowUpdateOps => last'.ret = {}
           /\ tables' = tables ]_vars

\* Every table holds a row, and an update_content addressed to a key that no
\* note has has answered None.
C28_Witness ==
    /\ last.op = "update_content"
    /\ ~last.found
    /\ last.ret = {}
    /\ \A t \in 1..7 : DOMAIN tables[t] # {}

-----------------------------------------------------------------------------
(* GET /: HajjPackageDAO.get_all_packages behind list_hajj_package *)

\* get_all_packages(self, limit: int = 100, offset: int = 0)
DefaultLimit == 100

DefaultOffset == 0

RECURSIVE KSubsets(_, _)
\* The subsets of S that have k elements.
KSubsets(S, k) ==
    IF k = 0 THEN {{}}
    ELSE UNION { { {x} \cup T : T \in KSubsets({y \in S : y > x}, k - 1) } : x \in S }

\* select(HajjPackage).limit(limit).offset(offset): the statement has no
\* ORDER BY, so the store may skip any `offset` rows and leave out any rows
\* beyond `limit`.  The possible results, as sets of row keys.
get_all_packages(limit, offset) ==
    LET n == Cardinality(DOMAIN packages)
        rest == IF n > offset THEN n - offset ELSE 0
        size == IF rest > limit THEN limit ELSE rest
    IN  { DOMAIN packages \ D : D \in KSubsets(DOMAIN packages, n - size) }

\* return await dao.get_all_packages()
http_list_hajj_package ==
    /\ UNCHANGED <<tables, sessions>>
    /\ \E rows \in get_all_packages(DefaultLimit, DefaultOffset) :
          last' = [op |-> "list_hajj_package", id |-> NoneId, exc |-> "",
                   status |-> 200, body |-> rows]

-----------------------------------------------------------------------------
(* Specification of the package list: packages are created one after the
   other and listed *)

MaxListed == DefaultLimit + 1

ListCreate ==
    \E id \in 1..MaxListed :
        create_hajj_package(id, PackageArgs(2030, 1, 1, 1, 1))

ListAll == http_list_hajj_package

NextList == ListCreate \/ ListAll

SpecList == Init /\ [][NextList]_vars

\* C25: the response of the hajj-package list endpoint contains every
\* persisted hajj package, whatever the number of packages created.
C25_ListHoldsEveryPackage ==
    last.op = "list_hajj_package"
    => /\ last.status = 200
       /\ \A p \in DOMAIN packages : p \in last.body

-----------------------------------------------------------------------------
(* Default arguments of BookingDAO.create and CommissionDAO.create, and
   BookingDAO.get_active_bookings *)

BookingCreateDefaults_Completed ==
    [agent_id |-> NoneId, travelling_from |-> "None", status |-> "completed",
     moved_to_booking_id |-> NoneId]

\* agent_id = None, travelling_from = None,
\* status = BookingStatusEnum.REGISTERED, moved_to_booking_id = None
BookingCreateDefaults ==
    [agent_id |-> NoneId, travelling_from |-> "None", status |-> "registered",
     moved_to_booking_id |-> NoneId]

\* CommissionStatusEnum
CommissionStatuses == {"pending", "paid"}

\* status = CommissionStatusEnum.PENDING
CommissionCreateDefaults == [status |-> "pending"]

\* BookingDAO.create called with the keyword arguments kw: an argument that
\* is not supplied takes its default.
BookingDAO_create(id, kw) ==
    /\ FreshKey(bookings, id)
    /\ LET rec == [op |-> "BookingDAO.create", id |-> id, kw |-> kw]
       IN  Flush(agents, clients, packages,
                 Insert(bookings, id, kw @@ BookingCreateDefaults),
                 commissions, payments, notes,
                 rec @@ [exc |-> ""],
                 [rec EXCEPT !.id = NoneId] @@ [exc |-> "IntegrityError"])

\* CommissionDAO.create called with the keyword arguments kw.
CommissionDAO_create(id, kw) ==
    /\ FreshKey(commissions, id)
    /\ LET rec == [op |-> "CommissionDAO.create", id |-> id, kw |-> kw]
       IN  Flush(agents, clients, packages, bookings,
                 Insert(commissions, id, kw @@ CommissionCreateDefaults),
                 payments, notes,
                 rec @@ [exc |-> ""],
                 [rec EXCEPT !.id = NoneId] @@ [exc |-> "IntegrityError"])

ActiveBookings_NotCancelled ==
    {i \in DOMAIN bookings : bookings[i].status \notin {"cancelled"}}

\* select(Booking).where(Booking.status.not_in([CANCELLED, COMPLETED]))
ActiveBookings ==
    {i \in DOMAIN bookings : bookings[i].status \notin {"cancelled", "completed"}}

get_active_bookings ==
    /\ UNCHANGED <<tables, sessions>>
    /\ last' = [op |-> "get_active_bookings", id |-> NoneId, exc |-> "",
                ret |-> ActiveBookings]

-----------------------------------------------------------------------------
(* Specification of the statuses of bookings and commissions *)

StSetup == BkSetup

StCreate ==
    \E id \in BookingIds :
        \/ BookingDAO_create(id, [client_id |-> 1, package_id |-> 1])
        \/ \E st \in BookingStatuses :
               BookingDAO_create(id, [client_id |-> 1, package_id |-> 1,
                                      status |-> st])

StUpdateStatus ==
    \E id \in BookingIds, st \in BookingStatuses : update_status(id, st)

StActive == get_active_bookings

StCommission ==
    \E id \in 1..MaxMoneyRows :
        \/ CommissionDAO_create(id, [agent_id |-> 1, booking_id |-> 1,
                                     commission_amount |-> 5])
        \/ \E st \in CommissionStatuses :
               CommissionDAO_create(id, [agent_id |-> 1, booking_id |-> 1,
                                         commission_amount |-> 5, status |-> st])

NextStatus == StSetup \/ StCreate \/ StUpdateStatus \/ StActive \/ StCommission

SpecStatus == Init /\ [][NextStatus]_vars

\* C22: get_active_bookings returns exactly the persisted bookings whose
\* status is neither CANCELLED nor COMPLETED, that is those whose status is
\* REGISTERED or MOVED, after any sequence of create and update_status.
C22_ActiveBookingsAreRegisteredOrMoved ==
    last.op = "get_active_bookings"
    => /\ last.exc = ""
       /\ last.ret = {i \in DOMAIN bookings :
                        bookings[i].status \in {"registered", "moved"}}
       /\ \A i \in DOMAIN bookings :
             i \in last.ret <=> ~ (bookings[i].status \in {"cancelled", "completed"})

\* The query has answered with one booking and left out another, whose
\* status was updated to COMPLETED.
C22_Witness ==
    /\ last.op = "get_active_bookings"
    /\ last.ret # {}
    /\ \E i \in DOMAIN bookings :
          i \notin last.ret /\ bookings[i].status = "completed"
    /\ \E i \in last.ret : bookings[i].status = "moved"

\* C26: a booking created through BookingDAO.create without a status has
\* status REGISTERED, and a commission created through CommissionDAO.create
\* without a status has status PENDING.
C26_DefaultStatus ==
    /\ (/\ last.op = "BookingDAO.create"
        /\ last.exc = ""
        /\ "status" \notin DOMAIN last.kw)
       => /\ last.id \in DOMAIN bookings
          /\ bookings[last.id].status = "registered"
    /\ (/\ last.op = "CommissionDAO.create"
        /\ last.exc = ""
        /\ "status" \notin DOMAIN last.kw)
       => /\ last.id \in DOMAIN commissions
          /\ commissions[last.id].status = "pending"

\* A commission has been created without a status for a booking that was
\* itself created without a status.
C26_Witness ==
    /\ last.op = "CommissionDAO.create"
    /\ last.exc = ""
    /\ "status" \notin DOMAIN last.kw
    /\ \E b \in DOMAIN bookings : bookings[b].status = "registered"

-----------------------------------------------------------------------------
(* Specification of the three booking updates, over every status *)

InSetup == BkSetup

InCreate ==
    \E id \in UpdateIds :
        BookingDAO_create(id, [client_id |-> 1, package_id |-> 1])

InUpdateStatus ==
    \E id \in UpdateIds, st \in BookingStatuses : update_status(id, st)

InAssignAgent == \E id \in UpdateIds, a \in {NoneId, 1} : assign_agent(id, a)

InMove == \E id \in UpdateIds, m \in UpdateIds : move_booking(id, m)

NextIndependent ==
    InSetup \/ InCreate \/ InUpdateStatus \/ InAssignAgent \/ InMove

SpecIndependent == Init /\ [][NextIndependent]_vars

\* The column that each of the three updates writes.
ColumnOf(op) ==
    CASE op = "update_status" -> "status"
      [] op = "assign_agent" -> "agent_id"
      [] op = "move_booking" -> "moved_to_booking_id"

\* C30: the three booking updates are independent: move_booking changes only
\* moved_to_booking_id and leaves status and agent_id unchanged,
\* update_status changes only status, whatever the status before and the
\* status asked for, and assign_agent changes only agent_id.
C30_BookingUpdatesIndependent ==
    [][ (/\ last'.op \in {"update_status", "assign_agent", "move_booking"}
         /\ last'.id \in DOMAIN bookings)
        => /\ last'.op = "update_status" => last'.exc = ""
           /\ last'.exc = ""
              => /\ DOMAIN bookings' = DOMAIN bookings
                 /\ \A b \in DOMAIN bookings \ {last'.id} : bookings'[b] = bookings[b]
                 /\ \A f \in DOMAIN bookings[last'.id] :
                       bookings'[last'.id][f] =
                           IF f = ColumnOf(last'.op) THEN last'.arg
                           ELSE bookings[last'.id][f]
           /\ last'.exc # "" => tables' = tables ]_vars

\* One booking carries a moved-to link while its status is not MOVED, and
\* another has status MOVED with no moved-to link.
C30_Witness ==
    /\ last.op \in {"update_status", "assign_agent", "move_booking"}
    /\ last.exc = ""
    /\ \E a, b \in DOMAIN bookings :
          /\ bookings[a].moved_to_booking_id # NoneId
          /\ bookings[a].status = "cancelled"
          /\ bookings[b].status = "moved"
          /\ bookings[b].moved_to_booking_id = NoneId

====
